---- MODULE Spec2Model ----
(***************************************************************************)
(* Syncline: relay server (server/src/server.rs, server/src/db.rs), sync   *)
(* client (client_folder/src/client.rs), wire codec                        *)
(* (syncline/src/protocol.rs), folder reconciler                           *)
(* (client_folder/src/main.rs), text diff (client_folder/src/diff.rs),     *)
(* snapshot storage (client_folder/src/storage.rs) and bootstrap scanner   *)
(* (client_folder/src/state.rs).                                           *)
(*                                                                         *)
(* CRDT documents are kept as sets of operations.  An operation is named   *)
(* by the replica that created it and its clock on that replica.  An       *)
(* operation is integrated once every earlier operation of its replica is  *)
(* present; the others wait as pending.  The content of a document is a    *)
(* function of its integrated operations, so two documents show the same   *)
(* content exactly when their integrated operations are equal.             *)
(***************************************************************************)
EXTENDS Integers, Sequences, FiniteSets, Bags, TLC

\* ------------------------------------------------------------------ bounds
MaxClock == 2
MaxPeerSteps == 5
MaxConnects == 2
MaxEdits == 1
MaxRows == 3
MaxChars == 2

MaxFileOps == 3

MaxEntries == 2

MaxDiffChars == 2

MaxLoads == 2

\* Offline changes to the folder between runs of the bootstrap scanner.
MaxBootEdits == 2

\* Runs of the bootstrap scanner.
MaxBootRuns == 2

\* Changes of the network, the registry and the documents around the connect loop.
MaxNetChanges == 4

\* Files users write or delete around one folder client.
MaxTreeOps == 3

\* Local edits made while the outbound channel of a Client is watched.
MaxChanEdits == 101

\* Times the user saves a file while its start_file_sync runs.
MaxWindowWrites == 2

\* Times users save the file of two connected replicas.
MaxMirrorEdits == 2

\* Messages published on a document's broadcast channel while one forwarder
\* is watched, and the messages the channel retains (65 536 in the server).
MaxLagSends == 4
MaxRetained == 2

\* Characters of a relative path.
MaxPathLen == 3

\* --------------------------------------------------------------- constants
MSG_SYNC_STEP_1 == 0
MSG_SYNC_STEP_2 == 1
MSG_UPDATE == 2

\* Bytes of each text that sync_local_change puts in its log line.
LogSliceLength == 50

Clients == {"A", "B"}
DocIds == {"d1", "d2"}

VARIABLES
    mode,       \* which subsystem this behaviour exercises
    channels,   \* server: doc ids that have a broadcast channel
    first,      \* history: per doc, the type of the first frame handled for it
    fwd,        \* server: bag of forwarder tasks [conn, doc, rx, skipped], rx
                \* the messages waiting in the task's broadcast receiver and
                \* skipped (history) whether it has dropped a message of its own
    db,         \* server: rows of the updates table, in id order
    saving,     \* server: bag of spawned save_update tasks not yet run
    logged,     \* history: every row ever appended to the updates table
    srvpc,      \* server: per connection, the SYNC_STEP_1 being answered
    outq,       \* per client, frames queued by the server towards it
    up,         \* per client, whether its WebSocket is connected
    epoch,      \* per client, how many connections it has opened
    sent,       \* number of connects and frames the environment has made
    restarts,   \* history: number of restarts of the server process
    cdoc,       \* client: per client, the operations held by its document
    registered, \* client: per client, whether the document is in the registry
    mpsc,       \* client: per client, the outbound channel of the Client
    suppress,   \* client: per client, the document's suppress flag
    applying,   \* client: per client, the inbound frame being applied
    offline,    \* history: per client, the operations it made while disconnected
    inp,        \* the arguments of the function under study
    out,        \* its result
    disk,       \* folder client: per replica and path, the file in the synced folder
    snap,       \* folder client: per replica and path, the .yrs snapshot
    idx,        \* folder client: per replica and path, the entries of the index map
    idxin,      \* per replica, index updates the relay has yet to deliver to it
    tasks,      \* folder client: per replica, the start_file_sync calls in progress
    adoc,       \* folder client: per replica and path, the active handler's document
    pending,    \* folder client: per replica, the registry's pending set
    wq,         \* folder client: per replica, paths with a watcher event queued
    srvtext,    \* per path, the text the relay holds for the file's document
    fops,       \* number of file operations users have made
    deleted     \* history: per path, the replica whose user deleted it while tracked

vars == <<mode, channels, first, fwd, db, saving, logged, srvpc, outq,
          up, epoch, sent, restarts, cdoc, registered, mpsc, suppress, applying,
          offline, inp, out, disk, snap, idx, idxin, tasks, adoc, pending, wq,
          srvtext, fops, deleted>>

pureVars == <<inp, out>>

fileVars == <<disk, snap, idx, idxin, tasks, adoc, pending, wq, srvtext, fops, deleted>>

netVars == <<up, epoch, sent, restarts>>

cliVars == <<cdoc, registered, mpsc, suppress, applying, offline>>

srvVars == <<channels, first, fwd, db, saving, logged, srvpc, outq>>

\* ------------------------------------------------------------ CRDT document
Op == [o : Clients, k : 1..MaxClock]

\* Byte strings that travel as payloads and table rows: an encoded update, an
\* encoded state vector, bytes that do not decode, and the empty byte string.
\* The encoding of an update is never the empty byte string: it always holds
\* the counts of its blocks and of its delete set.
EncUpdate(u) == [kind |-> "update", ops |-> u]

EncSV(sv) == [kind |-> "sv", sv |-> sv]

Corrupt == [kind |-> "corrupt"]

NoBytes == [kind |-> "empty"]

is_empty(bytes) == bytes.kind = "empty"

Integrated(D) == {x \in D : \A j \in 1..x.k : [o |-> x.o, k |-> j] \in D}

Pending(D) == D \ Integrated(D)

GetString(D) == Integrated(D)

StateVectorOf(D) == [r \in Clients |-> Cardinality({x \in Integrated(D) : x.o = r})]

EmptySV == [r \in Clients |-> 0]

EncodeStateAsUpdate(D, sv) == {x \in Integrated(D) : x.k > sv[x.o]} \cup Pending(D)

\* Update::decode_v1 followed by apply_update; bytes that do not decode are
\* skipped by every caller.
ApplyUpdate(D, bytes) == IF bytes.kind = "update" THEN D \cup bytes.ops ELSE D

RECURSIVE ApplyAll(_, _)
ApplyAll(D, us) ==
    IF us = <<>> THEN D ELSE ApplyAll(ApplyUpdate(D, Head(us)), Tail(us))

\* ------------------------------------------------------------- update store
RowsOf(rows, d) == SelectSeq(rows, LAMBDA r : r.doc = d)

RECURSIVE DataOf(_)
DataOf(rows) == IF rows = <<>> THEN <<>> ELSE <<Head(rows).data>> \o DataOf(Tail(rows))

\* INSERT INTO updates (doc_id, update_data): the new row gets the next id.
save_update(rows, d, data) == Append(rows, [doc |-> d, data |-> data])

load_all_updates(rows, d) == DataOf(rows)

\* SELECT update_data FROM updates WHERE doc_id = ? ORDER BY id ASC.
load_doc_updates(rows, d) == DataOf(RowsOf(rows, d))

get_all_updates_since(rows, d, sv) ==
    LET all_updates == load_doc_updates(rows, d)
    IN  IF all_updates = <<>> THEN NoBytes
        ELSE EncUpdate(EncodeStateAsUpdate(ApplyAll({}, all_updates), sv))

\* ------------------------------------------------------------ wire protocol
None == [some |-> FALSE, msg_type |-> 0, doc_id |-> <<>>, payload |-> <<>>]

Some(t, d, p) == [some |-> TRUE, msg_type |-> t, doc_id |-> d, payload |-> p]

\* `len as u16`: the cast keeps the low 16 bits.
AsU16(n) == n % 65536

to_be_bytes(n) == <<n \div 256, n % 256>>

from_le_bytes(b) == b[2] * 256 + b[1]

from_be_bytes(b) == b[1] * 256 + b[2]

\* A frame is msg_type, the doc_id's byte length as a big-endian u16, the
\* doc_id's bytes, the payload.
encode_message(msg_type, doc_id, payload) ==
    <<msg_type>> \o to_be_bytes(AsU16(Len(doc_id))) \o doc_id \o payload

IsContinuation(b) == b >= 128 /\ b <= 191

\* Length of the UTF-8 sequence a byte starts, 0 if it starts none.
SequenceLength(b) ==
    IF b < 128 THEN 1
    ELSE IF b >= 194 /\ b <= 223 THEN 2
    ELSE IF b >= 224 /\ b <= 239 THEN 3
    ELSE IF b >= 240 /\ b <= 244 THEN 4
    ELSE 0

SecondByteAny(b, c) == IsContinuation(c)

\* The range UTF-8 allows for the byte that follows lead byte b.
SecondByteOk(b, c) ==
    IF b = 224 THEN c >= 160 /\ c <= 191
    ELSE IF b = 237 THEN c >= 128 /\ c <= 159
    ELSE IF b = 240 THEN c >= 144 /\ c <= 191
    ELSE IF b = 244 THEN c >= 128 /\ c <= 143
    ELSE IsContinuation(c)

\* std::str::from_utf8 succeeds: every byte that is not a continuation byte
\* starts a complete sequence, and every continuation byte belongs to one.
from_utf8(s) ==
    \A i \in 1..Len(s) :
        IF IsContinuation(s[i])
        THEN \E j \in (i - 3)..(i - 1) :
                /\ j >= 1 /\ ~IsContinuation(s[j]) /\ SequenceLength(s[j]) > i - j
                /\ \A k \in (j + 1)..i : IsContinuation(s[k])
        ELSE LET n == SequenceLength(s[i])
             IN  /\ n > 0 /\ i + n - 1 <= Len(s)
                 /\ \A k \in (i + 1)..(i + n - 1) : IsContinuation(s[k])
                 /\ n > 1 => SecondByteOk(s[i], s[i + 1])

decode_message(data) ==
    IF Len(data) < 3 THEN None
    ELSE LET msg_type == data[1]
             doc_id_len == from_be_bytes(<<data[2], data[3]>>)
         IN  IF Len(data) < 3 + doc_id_len THEN None
             ELSE IF ~from_utf8(SubSeq(data, 4, 3 + doc_id_len)) THEN None
             ELSE Some(msg_type, SubSeq(data, 4, 3 + doc_id_len),
                       SubSeq(data, 4 + doc_id_len, Len(data)))

\* ---------------------------------------------------- functions under study
NoArg == [kind |-> "none"]

InitPure == inp = NoArg /\ out = NoArg

\* The UTF-8 encoding of code point cp.
Utf8Of(cp) ==
    IF cp < 128 THEN <<cp>>
    ELSE IF cp < 2048 THEN <<192 + (cp \div 64), 128 + (cp % 64)>>
    ELSE IF cp < 65536
         THEN <<224 + (cp \div 4096), 128 + ((cp \div 64) % 64), 128 + (cp % 64)>>
    ELSE <<240 + (cp \div 262144), 128 + ((cp \div 4096) % 64),
           128 + ((cp \div 64) % 64), 128 + (cp % 64)>>

\* The code point whose encoding of Len(b) bytes would start with b[1].
CodePointOf(b) ==
    IF Len(b) = 1 THEN b[1]
    ELSE IF Len(b) = 2 THEN (b[1] % 32) * 64 + (b[2] % 64)
    ELSE IF Len(b) = 3 THEN (b[1] % 16) * 4096 + (b[2] % 64) * 64 + (b[3] % 64)
    ELSE (b[1] % 8) * 262144 + (b[2] % 64) * 4096 + (b[3] % 64) * 64 + (b[4] % 64)

IsScalarValue(cp) == cp >= 0 /\ cp <= 1114111 /\ ~(cp >= 55296 /\ cp <= 57343)

\* s is the concatenation of the encodings of Unicode scalar values.
RECURSIVE IsValidUtf8(_)
IsValidUtf8(s) ==
    \/ s = <<>>
    \/ \E n \in 1..4 :
          /\ n <= Len(s)
          /\ IsScalarValue(CodePointOf(SubSeq(s, 1, n)))
          /\ Utf8Of(CodePointOf(SubSeq(s, 1, n))) = SubSeq(s, 1, n)
          /\ IsValidUtf8(SubSeq(s, n + 1, Len(s)))

\* ------------------------------------------------------------ folder client
\* Relative paths of the synced folder, and their extensions.
Paths == {"n.md", "i.png"}

extension == [p \in Paths |-> IF p = "n.md" THEN "md" ELSE "png"]

\* The startup scan's extension filter.
IsWatchedExtension(p) == extension[p] = "md" \/ extension[p] = "txt"

\* A file, a snapshot or a document is absent, empty, or holds text.
Absent == "absent"

Contents == {"empty", "text"}

\* The index map "files" is a Y.Map: the entries written for a key form a
\* tree by origin (the entry that was the key's last one when the new one was
\* written), siblings ordered by client; the key's value is the last entry
\* of the tree in that order, and the key is in the map unless that entry
\* is deleted.
Root == <<"root", 0>>

NoEntries == [ins |-> {}, del |-> {}]

Children(m, o) == {x \in m.ins : x.origin = o}

RECURSIVE LastEntry(_, _)
LastEntry(m, o) ==
    IF Children(m, o) = {} THEN o
    ELSE LastEntry(m, (CHOOSE x \in Children(m, o) :
                          \A y \in Children(m, o) : y.id[1] = x.id[1] \/ x.id[1] = "B").id)

contains_key(m) == LastEntry(m, Root) # Root /\ LastEntry(m, Root) \notin m.del

\* index_map.insert by replica r, as the update the transaction emits.
IndexInsert(m, r, p) ==
    [path |-> p,
     ins |-> {[id |-> <<r, Cardinality({x \in m.ins : x.id[1] = r}) + 1>>,
               origin |-> LastEntry(m, Root)]},
     del |-> {LastEntry(m, Root)} \ {Root}]

\* index_map.remove, as the update the transaction emits.
IndexRemove(m, p) == [path |-> p, ins |-> {}, del |-> {LastEntry(m, Root)} \ {Root}]

IndexApply(m, u) == [ins |-> m.ins \cup u.ins, del |-> m.del \cup u.del]

\* What one replica holds besides its index and its active handlers.
Local(r) == [disk |-> disk[r], snap |-> snap[r], pending |-> pending[r],
             tasks |-> tasks[r], wq |-> wq[r]]

NewTask(p, inline) == [path |-> p, pc |-> 1, doc |-> Absent, inline |-> inline]

\* FileRegistry::try_claim succeeds.
CanClaim(L, r, p) == adoc[r][p] = Absent /\ p \notin L.pending

try_claim(L, r, p, inline) ==
    IF CanClaim(L, r, p)
    THEN [L EXCEPT !.pending = @ \cup {p}, !.tasks = @ \cup {NewTask(p, inline)}]
    ELSE L

unclaim(L, p) == [L EXCEPT !.pending = @ \ {p}]

\* The index observer, for a changed key p: a key no longer in the map has
\* its file removed if there is one, and then its snapshot and its claim; a
\* key in the map is claimed and start_file_sync spawned.
IndexObserver(L, r, p, present) ==
    IF ~present
    THEN IF L.disk[p] # Absent
         THEN [L EXCEPT !.disk[p] = Absent, !.snap[p] = Absent,
                        !.pending = @ \ {p}, !.wq = @ \cup {p}]
         ELSE L
    ELSE try_claim(L, r, p, FALSE)

\* sync_local_change: the document's content after the file was diffed in.
sync_local_change(doc, file) == IF file = Absent \/ file = doc THEN doc ELSE file

SetLocal(r, L) ==
    /\ disk' = [disk EXCEPT ![r] = L.disk]
    /\ snap' = [snap EXCEPT ![r] = L.snap]
    /\ pending' = [pending EXCEPT ![r] = L.pending]
    /\ tasks' = [tasks EXCEPT ![r] = L.tasks]
    /\ wq' = [wq EXCEPT ![r] = L.wq]

\* A committed index transaction of r is relayed to every other replica.
Relay(r, u) == [o \in Clients |-> IF o = r THEN idxin[o] ELSE Append(idxin[o], u)]

InitFiles ==
    /\ disk = [r \in Clients |-> [p \in Paths |-> Absent]]
    /\ snap = [r \in Clients |-> [p \in Paths |-> Absent]]
    /\ idx = [r \in Clients |-> [p \in Paths |-> NoEntries]]
    /\ idxin = [r \in Clients |-> <<>>]
    /\ tasks = [r \in Clients |-> {}]
    /\ adoc = [r \in Clients |-> [p \in Paths |-> Absent]]
    /\ pending = [r \in Clients |-> {}]
    /\ wq = [r \in Clients |-> {}]
    /\ srvtext = [p \in Paths |-> FALSE]
    /\ fops = 0
    /\ deleted = [p \in Paths |-> "nobody"]

\* ------------------------------------------------------------------ server
Idle == [doc |-> "", sv |-> EmptySV]

ConnId(c) == <<c, epoch[c]>>

IsOpen(conn) == up[conn[1]] /\ epoch[conn[1]] = conn[2]

NoType == 255

Frame(t, d, p) == [type |-> t, doc |-> d, payload |-> p]

Receivers(d) == {f \in BagToSet(fwd) : f.doc = d}

\* SYNC_STEP_1(f) on connection c, first half: subscribe to the doc's channel
\* (creating it) and spawn the forwarder; the state vector is then decoded.
HandleSyncStep1(c, f) ==
    /\ up[c] /\ srvpc[c] = Idle
    /\ f.type = MSG_SYNC_STEP_1
    /\ channels' = channels \cup {f.doc}
    /\ first' = [first EXCEPT ![f.doc] = IF @ = NoType THEN f.type ELSE @]
    /\ fwd' = fwd (+) SetToBag({[conn |-> ConnId(c), doc |-> f.doc, rx |-> <<>>,
                                 skipped |-> FALSE]})
    /\ srvpc' = [srvpc EXCEPT ![c] =
                   IF f.payload.kind = "sv"
                   THEN [doc |-> f.doc, sv |-> f.payload.sv]
                   ELSE Idle]
    /\ UNCHANGED <<db, saving, logged, outq>>

\* SYNC_STEP_1, second half: read the update log and answer with SYNC_STEP_2.
SyncReply(c) ==
    /\ up[c] /\ srvpc[c] # Idle
    /\ LET update == get_all_updates_since(db, srvpc[c].doc, srvpc[c].sv)
       IN  outq' = [outq EXCEPT ![c] =
                      IF ~is_empty(update)
                      THEN Append(@, [type |-> MSG_SYNC_STEP_2, doc |-> srvpc[c].doc,
                                      payload |-> update, origin |-> <<"server", 0>>])
                      ELSE @]
    /\ srvpc' = [srvpc EXCEPT ![c] = Idle]
    /\ UNCHANGED <<channels, first, fwd, db, saving, logged>>

\* tokio broadcast: tx.send hands the message to every receiver subscribed to
\* the doc's channel; with no receiver the message is not kept.
BroadcastSend(receivers, d, msg) ==
    LET deliver(f) == IF f.doc = d THEN [f EXCEPT !.rx = Append(@, msg)] ELSE f
        origin(g) == CHOOSE f \in DOMAIN receivers : deliver(f) = g
    IN  [g \in {deliver(f) : f \in DOMAIN receivers} |-> receivers[origin(g)]]

\* UPDATE(f) on connection c: spawn the save task, create the channel if
\* missing, publish.
HandleUpdate(c, f) ==
    /\ up[c] /\ srvpc[c] = Idle
    /\ f.type = MSG_UPDATE
    /\ saving' = saving (+) SetToBag({[doc |-> f.doc, data |-> f.payload]})
    /\ channels' = channels \cup {f.doc}
    /\ first' = [first EXCEPT ![f.doc] = IF @ = NoType THEN f.type ELSE @]
    /\ fwd' = BroadcastSend(fwd, f.doc, [payload |-> f.payload, origin |-> ConnId(c)])
    /\ UNCHANGED <<db, logged, srvpc, outq>>

\* Any other message type is ignored.
HandleOther(c, f) ==
    /\ up[c] /\ srvpc[c] = Idle
    /\ f.type \notin {MSG_SYNC_STEP_1, MSG_UPDATE}
    /\ UNCHANGED <<channels, first, fwd, db, saving, logged, srvpc, outq>>

ShouldForwardAlways(sender_id, connection_id) == TRUE

ShouldForwardInverted(sender_id, connection_id) == sender_id = connection_id

\* The forwarder's test: a message is passed on unless it came from the
\* forwarder's own connection.
ShouldForward(sender_id, connection_id) == sender_id # connection_id

\* One turn of a forwarder task's loop: take the next message from the
\* receiver and write it to the socket unless the test fails.
Forward(f) ==
    /\ BagIn(f, fwd) /\ IsOpen(f.conn)
    /\ f.rx # <<>>
    /\ LET msg == Head(f.rx)
       IN  /\ outq' = [outq EXCEPT ![f.conn[1]] =
                         IF ShouldForward(msg.origin, f.conn)
                         THEN Append(@, [type |-> MSG_UPDATE, doc |-> f.doc,
                                         payload |-> msg.payload, origin |-> msg.origin])
                         ELSE @]
           /\ fwd' = (fwd (-) SetToBag({f}))
                     (+) SetToBag({[f EXCEPT !.rx = Tail(@),
                                             !.skipped = @ \/ msg.origin = f.conn]})
    /\ UNCHANGED <<channels, first, db, saving, logged, srvpc>>

ForwarderExitOnSend(f) ==
    /\ BagIn(f, fwd) /\ ~IsOpen(f.conn)
    /\ f.rx # <<>>
    /\ fwd' = fwd (-) SetToBag({f})
    /\ UNCHANGED <<channels, first, db, saving, logged, srvpc, outq>>

\* A forwarder leaves its loop once its connection's outgoing queue is closed.
ForwarderExit(f) ==
    /\ BagIn(f, fwd) /\ ~IsOpen(f.conn)
    /\ fwd' = fwd (-) SetToBag({f})
    /\ UNCHANGED <<channels, first, db, saving, logged, srvpc, outq>>

\* A spawned save_update task runs: INSERT INTO updates.
SaveUpdate(r) ==
    /\ BagIn(r, saving)
    /\ saving' = saving (-) SetToBag({r})
    /\ db' = save_update(db, r.doc, r.data)
    /\ logged' = logged \cup {r}
    /\ UNCHANGED <<channels, first, fwd, srvpc, outq>>

\* A spawned save_update task runs and the INSERT fails: the error is logged,
\* nothing is appended and nothing else happens.
SaveUpdateFails(r) ==
    /\ BagIn(r, saving)
    /\ saving' = saving (-) SetToBag({r})
    /\ UNCHANGED <<channels, first, fwd, db, logged, srvpc, outq>>

RestartDbLost(rows) == <<>>

\* What survives a restart of the server process on the same database.
RestartDb(rows) == rows

\* The server process stops and starts again with the same --db-path: every
\* connection is gone, and so is everything the process held in memory.
ServerRestart ==
    /\ \E c \in Clients : up[c]
    /\ channels' = {}
    /\ fwd' = EmptyBag
    /\ saving' = EmptyBag
    /\ db' = RestartDb(db)
    /\ srvpc' = [c \in Clients |-> Idle]
    /\ outq' = [c \in Clients |-> <<>>]
    /\ restarts' = restarts + 1
    /\ UNCHANGED <<first, logged>>

\* The tasks of the server that run on their own.
ServerTask ==
    \/ \E c \in Clients : SyncReply(c)
    \/ \E f \in BagToSet(fwd) : Forward(f)
    \/ \E f \in BagToSet(fwd) : ForwarderExit(f)
    \/ \E r \in BagToSet(saving) : SaveUpdate(r)

\* The socket of c closes: the server's receive task ends and the outgoing
\* queue is closed.
ServerClose(c) ==
    /\ outq' = [outq EXCEPT ![c] = <<>>]
    /\ srvpc' = [srvpc EXCEPT ![c] = Idle]
    /\ UNCHANGED <<channels, first, fwd, db, saving, logged>>

InitServer ==
    /\ channels = {}
    /\ first = [d \in DocIds |-> NoType]
    /\ fwd = EmptyBag
    /\ db = <<>>
    /\ saving = EmptyBag
    /\ logged = {}
    /\ srvpc = [c \in Clients |-> Idle]
    /\ outq = [c \in Clients |-> <<>>]

\* ------------------------------------------------------------- sync client
\* Capacity of the Client's outbound channel.
ClientChannelCapacity == 100

\* The document every client of this model syncs.
TheDoc == "d1"

NoFrame == [type |-> NoType, doc |-> "", payload |-> NoBytes, origin |-> <<"server", 0>>]

\* mpsc try_send: the message is dropped when the channel is full.
try_send(q, msg) == IF Len(q) < ClientChannelCapacity THEN Append(q, msg) ELSE q

ObserverIgnoresSuppress(c, update, q) ==
    IF update = {} THEN q
    ELSE try_send(q, Frame(MSG_UPDATE, TheDoc, EncUpdate(update)))

\* The update observer add_doc attaches, called with the operations a
\* committed transaction integrated (a transaction that changed nothing emits
\* no event): unless the suppress flag is set it puts UPDATE(doc_id,
\* event.update) on the outbound channel.
Observer(c, update, q) ==
    IF suppress[c] \/ update = {} THEN q
    ELSE try_send(q, Frame(MSG_UPDATE, TheDoc, EncUpdate(update)))

InitClients ==
    /\ cdoc = [c \in Clients |-> {}]
    /\ registered = [c \in Clients |-> FALSE]
    /\ mpsc = [c \in Clients |-> <<>>]
    /\ suppress = [c \in Clients |-> FALSE]
    /\ applying = [c \in Clients |-> NoFrame]
    /\ offline = [c \in Clients |-> {}]

\* start_file_sync, steps 4 and 5: the document is registered with the
\* Client, which attaches the observer and queues SYNC_STEP_1 with the state
\* vector; the caller then queues the full state as an UPDATE.
AddDoc(c) ==
    /\ up[c] /\ ~registered[c]
    /\ registered' = [registered EXCEPT ![c] = TRUE]
    /\ mpsc' = [mpsc EXCEPT ![c] =
                  @ \o <<Frame(MSG_SYNC_STEP_1, TheDoc, EncSV(StateVectorOf(cdoc[c]))),
                         Frame(MSG_UPDATE, TheDoc,
                               EncUpdate(EncodeStateAsUpdate(cdoc[c], EmptySV)))>>]
    /\ UNCHANGED <<mode, pureVars, fileVars, srvVars, up, epoch, sent, restarts, cdoc, suppress,
                   applying, offline>>

\* A local write transaction on the document commits; its observers run.
LocalEdit(c) ==
    /\ Cardinality({x \in cdoc[c] : x.o = c}) < MaxEdits
    /\ LET op == [o |-> c, k |-> Cardinality({x \in cdoc[c] : x.o = c}) + 1]
       IN  /\ cdoc' = [cdoc EXCEPT ![c] = @ \cup {op}]
           /\ mpsc' = [mpsc EXCEPT ![c] = IF registered[c] THEN Observer(c, {op}, @) ELSE @]
           /\ offline' = [offline EXCEPT ![c] = IF up[c] THEN @ ELSE @ \cup {op}]
    /\ UNCHANGED <<mode, pureVars, fileVars, srvVars, up, epoch, sent, restarts, registered, suppress,
                   applying>>

\* What the connect loop writes to a new socket: SYNC_STEP_1 for every
\* registered document, then its full state as an UPDATE.
Handshake(c) ==
    IF registered[c]
    THEN <<Frame(MSG_SYNC_STEP_1, TheDoc, EncSV(StateVectorOf(cdoc[c]))),
           Frame(MSG_UPDATE, TheDoc, EncUpdate(EncodeStateAsUpdate(cdoc[c], EmptySV)))>>
    ELSE <<>>

\* The connect loop opens a WebSocket and the server accepts it.
ClientConnect(c) ==
    /\ ~up[c] /\ sent < MaxConnects
    /\ sent' = sent + 1
    /\ up' = [up EXCEPT ![c] = TRUE]
    /\ epoch' = [epoch EXCEPT ![c] = @ + 1]
    /\ mpsc' = [mpsc EXCEPT ![c] = Handshake(c) \o @]
    /\ UNCHANGED <<mode, pureVars, fileVars, srvVars, restarts, cdoc, registered, suppress, applying,
                   offline>>

\* Main loop, inbound arm: a frame for a registered document is decoded and
\* the suppress flag is set.
ClientRecv(c) ==
    /\ up[c] /\ outq[c] # <<>> /\ applying[c] = NoFrame
    /\ LET f == Head(outq[c])
           known == registered[c] /\ f.doc = TheDoc
                    /\ f.type \in {MSG_SYNC_STEP_2, MSG_UPDATE}
       IN  /\ suppress' = [suppress EXCEPT ![c] = IF known THEN TRUE ELSE @]
           /\ applying' = [applying EXCEPT ![c] = IF known THEN f ELSE @]
    /\ outq' = [outq EXCEPT ![c] = Tail(@)]
    /\ UNCHANGED <<mode, pureVars, fileVars, channels, first, fwd, db, saving, logged, srvpc, up, epoch,
                   sent, restarts, cdoc, registered, mpsc, offline>>

\* The decoded update is applied under a write transaction, the observers
\* run, and the suppress flag is cleared.
ClientApply(c) ==
    /\ applying[c] # NoFrame
    /\ cdoc' = [cdoc EXCEPT ![c] = ApplyUpdate(@, applying[c].payload)]
    /\ mpsc' = [mpsc EXCEPT ![c] =
                  Observer(c, Integrated(ApplyUpdate(cdoc[c], applying[c].payload))
                              \ Integrated(cdoc[c]), @)]
    /\ suppress' = [suppress EXCEPT ![c] = FALSE]
    /\ applying' = [applying EXCEPT ![c] = NoFrame]
    /\ UNCHANGED <<mode, pureVars, fileVars, srvVars, up, epoch, sent, restarts, registered, offline>>

\* The socket closes: frames on the wire are lost and the connect loop goes
\* back to sleep before it retries.
ClientDisconnect(c) ==
    /\ up[c]
    /\ up' = [up EXCEPT ![c] = FALSE]
    /\ \E n \in 0..Len(mpsc[c]) : mpsc' = [mpsc EXCEPT ![c] = SubSeq(@, n + 1, Len(@))]
    /\ ServerClose(c)
    /\ UNCHANGED <<mode, pureVars, fileVars, epoch, sent, restarts, cdoc, registered, suppress,
                   applying, offline>>

\* The server's receive task of connection c takes the next frame.
ServerRecv(c) ==
    /\ mpsc[c] # <<>>
    /\ \/ HandleSyncStep1(c, Head(mpsc[c]))
       \/ HandleUpdate(c, Head(mpsc[c]))
       \/ HandleOther(c, Head(mpsc[c]))
    /\ mpsc' = [mpsc EXCEPT ![c] = Tail(@)]
    /\ UNCHANGED <<mode, pureVars, fileVars, up, epoch, sent, restarts, cdoc, registered, suppress,
                   applying, offline>>

SyncServerTask ==
    ServerTask /\ UNCHANGED <<mode, pureVars, fileVars, up, epoch, sent, restarts, cliVars>>

InitSync ==
    /\ mode = "sync"
    /\ InitServer
    /\ up = [c \in Clients |-> FALSE]
    /\ epoch = [c \in Clients |-> 0]
    /\ sent = 0
    /\ restarts = 0
    /\ InitClients
    /\ InitPure
    /\ InitFiles

NextSync ==
    \/ \E c \in Clients : AddDoc(c)
    \/ \E c \in Clients : LocalEdit(c)
    \/ \E c \in Clients : ClientConnect(c)
    \/ \E c \in Clients : ClientRecv(c)
    \/ \E c \in Clients : ClientApply(c)
    \/ \E c \in Clients : ClientDisconnect(c)
    \/ \E c \in Clients : ServerRecv(c)
    \/ SyncServerTask

SpecSync == InitSync /\ [][NextSync]_vars

\* ------------------------------------------------------------- sync claims
\* Nothing is in flight: every client runs with its document registered and
\* its socket open, every queue between the parties is empty and the server
\* has no task left to run.
Quiescent ==
    /\ \A c \in Clients :
          /\ registered[c] /\ up[c]
          /\ mpsc[c] = <<>> /\ outq[c] = <<>>
          /\ applying[c] = NoFrame /\ srvpc[c] = Idle
    /\ saving = EmptyBag
    /\ \A f \in BagToSet(fwd) : IsOpen(f.conn) /\ f.rx = <<>>

\* C1: once every in-flight message has been delivered, all replicas of the
\* document hold identical content.
C1_Convergence ==
    Quiescent => \A a, b \in Clients : GetString(cdoc[a]) = GetString(cdoc[b])

\* C2: when both clients edited while disconnected and are connected again,
\* then at quiescence both replicas are equal and hold both offline edits.
C2_OfflineEditsMerged ==
    (Quiescent /\ \A c \in Clients : offline[c] # {}) =>
        \A a, b \in Clients :
            /\ GetString(cdoc[a]) = GetString(cdoc[b])
            /\ offline[a] \subseteq GetString(cdoc[b])

\* The step is client c finishing the application of an inbound frame.
InboundApplied(c) == applying[c] # NoFrame /\ applying'[c] = NoFrame

\* C4: the application of an inbound SYNC_STEP_2 or UPDATE to a registered
\* document puts nothing on the client's outbound channel.
C4_NoRebroadcast ==
    [][\A c \in Clients : InboundApplied(c) => mpsc'[c] = mpsc[c]]_vars

\* A client holds an operation of another replica, which only the application
\* of an inbound frame can bring, and its outbound channel is empty.
C4_Witness ==
    \E c \in Clients :
        /\ registered[c] /\ applying[c] = NoFrame /\ mpsc[c] = <<>>
        /\ \E x \in GetString(cdoc[c]) : x.o # c

\* C20: for a client that has sent its SYNC_STEP_1 and stays connected,
\* every update of the document the server received reaches the client, in
\* the SYNC_STEP_2 reply or as a forwarded UPDATE: once nothing is in flight,
\* the content of every row the server appended is in the client's document.
C20_NoCatchUpGap ==
    Quiescent =>
        \A c \in Clients : \A r \in logged :
            r.doc = TheDoc => ApplyUpdate({}, r.data) \subseteq cdoc[c]

\* The step commits a local write transaction on c's document.
LocalCommit(c) == \E op \in cdoc'[c] \ cdoc[c] : op.o = c

\* C22: a local mutation of a registered document, committed at any moment,
\* also while an inbound frame is being applied, puts its UPDATE frame on the
\* outbound channel.
C22_LocalEditAlwaysSent ==
    [][\A c \in Clients :
          (registered[c] /\ LocalCommit(c)) =>
             mpsc'[c] = Append(mpsc[c], Frame(MSG_UPDATE, TheDoc,
                                              EncUpdate(cdoc'[c] \ cdoc[c])))]_vars

\* C23: every local mutation of a registered document that is not
\* suppressed puts its UPDATE frame on the outbound channel, whatever the
\* channel already holds and whether or not the connection is up.
C23_NoLocalUpdateDropped ==
    [][\A c \in Clients :
          (registered[c] /\ ~suppress[c] /\ LocalCommit(c)) =>
             /\ Len(mpsc'[c]) = Len(mpsc[c]) + 1
             /\ mpsc'[c][Len(mpsc'[c])] = Frame(MSG_UPDATE, TheDoc,
                                                EncUpdate(cdoc'[c] \ cdoc[c]))]_vars

\* ------------------------------------------------- raw WebSocket peers
\* The frames a raw peer may send (as the server's tests do).
PeerUpdates == {{[o |-> "A", k |-> 1]}, {[o |-> "A", k |-> 2]}}

PeerVectors == {EmptySV, [EmptySV EXCEPT !["A"] = 1]}

PeerFrames ==
    {Frame(MSG_SYNC_STEP_1, d, EncSV(sv)) : d \in DocIds, sv \in PeerVectors}
    \cup {Frame(MSG_UPDATE, d, EncUpdate(u)) : d \in DocIds, u \in PeerUpdates}
    \cup {Frame(MSG_SYNC_STEP_2, "d1", EncUpdate({}))}

\* Peers connect and send at most MaxPeerSteps times in all.
PeerConnect(c) ==
    /\ ~up[c] /\ sent < MaxPeerSteps
    /\ sent' = sent + 1
    /\ up' = [up EXCEPT ![c] = TRUE]
    /\ epoch' = [epoch EXCEPT ![c] = @ + 1]
    /\ UNCHANGED <<mode, pureVars, fileVars, srvVars, restarts, cliVars>>

\* A peer sends frame f and the server's receive task handles it.
PeerSend(c, f) ==
    /\ sent < MaxPeerSteps
    /\ sent' = sent + 1
    /\ \/ HandleSyncStep1(c, f)
       \/ HandleUpdate(c, f)
       \/ HandleOther(c, f)
    /\ UNCHANGED <<mode, pureVars, fileVars, up, epoch, restarts, cliVars>>

PeerDisconnect(c) ==
    /\ up[c]
    /\ up' = [up EXCEPT ![c] = FALSE]
    /\ ServerClose(c)
    /\ UNCHANGED <<mode, pureVars, fileVars, epoch, sent, restarts, cliVars>>

RelayServerTask ==
    ServerTask /\ UNCHANGED <<mode, pureVars, fileVars, up, epoch, sent, restarts, cliVars>>

RelayRestart ==
    /\ ServerRestart
    /\ up' = [c \in Clients |-> FALSE]
    /\ UNCHANGED <<mode, pureVars, fileVars, epoch, sent, cliVars>>

InitRelay ==
    /\ mode = "relay"
    /\ InitServer
    /\ up = [c \in Clients |-> FALSE]
    /\ epoch = [c \in Clients |-> 0]
    /\ sent = 0
    /\ restarts = 0
    /\ InitClients
    /\ InitPure
    /\ InitFiles

NextRelay ==
    \/ \E c \in Clients : PeerConnect(c)
    \/ \E c \in Clients, f \in PeerFrames : PeerSend(c, f)
    \/ \E c \in Clients : PeerDisconnect(c)
    \/ RelayServerTask
    \/ RelayRestart

SpecRelay == InitRelay /\ [][NextRelay]_vars

\* Forwarders are tokio tasks: one that can run is eventually run.
RelayForward ==
    /\ \E f \in BagToSet(fwd) : Forward(f)
    /\ UNCHANGED <<mode, pureVars, fileVars, up, epoch, sent, restarts, cliVars>>

SpecRelayFair == SpecRelay /\ WF_vars(RelayForward)

\* The other arm of a forwarder's select: the closed outgoing queue.
RelayForwarderExit ==
    /\ \E f \in BagToSet(fwd) : ForwarderExit(f)
    /\ UNCHANGED <<mode, pureVars, fileVars, up, epoch, sent, restarts, cliVars>>

SpecRelayTasks == SpecRelayFair /\ WF_vars(RelayForwarderExit)

\* The relay with an update store whose INSERT may fail.
RelaySaveFails ==
    /\ \E r \in BagToSet(saving) : SaveUpdateFails(r)
    /\ UNCHANGED <<mode, pureVars, fileVars, up, epoch, sent, restarts, cliVars>>

NextRelayFaults == NextRelay \/ RelaySaveFails

SpecRelayFaults == InitRelay /\ [][NextRelayFaults]_vars

\* ------------------------------------------- received frames at the server
\* The bytes of a doc_id.
DocBytes(d) == IF d = "d1" THEN <<100, 49>> ELSE <<100, 50>>

DocNamed(bytes) == CHOOSE d \in DocIds : DocBytes(d) = bytes

\* StateVector::decode_v1 on a SYNC_STEP_1 payload: a count, then that many
\* pairs of client and clock, each number below 128 in one byte; the bytes
\* must hold all of them.
DecodeStateVector(payload) ==
    IF payload = <<0>> THEN EncSV(EmptySV)
    ELSE IF payload = <<1, 1, 1>> THEN EncSV([EmptySV EXCEPT !["A"] = 1])
    ELSE Corrupt

\* The payload of a decoded frame as the server's handlers take it: the
\* state vector bytes of a SYNC_STEP_1 go through decode_v1, an UPDATE's
\* payload is kept as it came.
PayloadOf(msg_type, payload) ==
    IF msg_type = MSG_SYNC_STEP_1 THEN DecodeStateVector(payload)
    ELSE IF payload = <<>> THEN NoBytes
    ELSE IF payload = <<0, 0>> THEN EncUpdate({})
    ELSE IF payload = <<1, 1>> THEN EncUpdate({[o |-> "A", k |-> 1]})
    ELSE Corrupt

\* Binary messages as they come off the socket: frames a client writes, and
\* frames cut short, with a doc_id length beyond the frame, with a doc_id
\* that is not UTF-8, with a state vector that does not decode, and of an
\* unknown type.
IngressFrames ==
    {<<>>, <<MSG_UPDATE>>, <<MSG_SYNC_STEP_1, 0>>,
     <<MSG_SYNC_STEP_1, 0, 5, 100, 49>>, <<MSG_UPDATE, 0, 3, 100, 49>>,
     <<MSG_SYNC_STEP_1, 0, 2, 255, 49, 0>>, <<MSG_UPDATE, 0, 2, 100, 255, 1, 1>>,
     <<9, 0, 2, 100, 49>>}
    \cup {encode_message(MSG_SYNC_STEP_1, DocBytes(d), sv) :
             d \in DocIds, sv \in {<<0>>, <<1, 1, 1>>, <<>>, <<1>>, <<1, 1>>}}
    \cup {encode_message(MSG_UPDATE, DocBytes(d), u) :
             d \in DocIds, u \in {<<1, 1>>, <<0, 0>>}}

\* The receive task of connection c takes binary message data: decode_message,
\* then the arm of its type; a frame that does not decode is passed over.
IngressRecv(c, data) ==
    /\ up[c] /\ srvpc[c] = Idle
    /\ sent < MaxPeerSteps
    /\ sent' = sent + 1
    /\ LET m == decode_message(data)
       IN  IF ~m.some
           THEN UNCHANGED srvVars
           ELSE LET f == Frame(m.msg_type, DocNamed(m.doc_id),
                               PayloadOf(m.msg_type, m.payload))
                IN  \/ HandleSyncStep1(c, f)
                    \/ HandleUpdate(c, f)
                    \/ HandleOther(c, f)
    /\ UNCHANGED <<mode, pureVars, fileVars, up, epoch, restarts, cliVars>>

InitIngress ==
    /\ mode = "ingress"
    /\ InitServer
    /\ up = [c \in Clients |-> FALSE]
    /\ epoch = [c \in Clients |-> 0]
    /\ sent = 0
    /\ restarts = 0
    /\ InitClients
    /\ InitPure
    /\ InitFiles

NextIngress ==
    \/ \E c \in Clients : PeerConnect(c)
    \/ \E c \in Clients, data \in IngressFrames : IngressRecv(c, data)
    \/ \E c \in Clients : PeerDisconnect(c)
    \/ RelayServerTask

SpecIngress == InitIngress /\ [][NextIngress]_vars

\* -------------------------------------------- lagging forwarder on its own
\* One forwarder of connection A on a document's broadcast channel: inp
\* counts the messages published, out is the channel (the messages it
\* retains, tail the number published so far) and the forwarder (next the
\* position of the message its receiver reads next, the positions it was
\* told it missed, what it wrote to the socket, whether it left its loop).
LagConn == <<"A", 1>>

\* tx.send: the channel keeps the newest MaxRetained messages.
Retain(buf, msg) ==
    LET all == Append(buf, msg)
    IN  IF Len(all) > MaxRetained THEN Tail(all) ELSE all

\* Position of the oldest message the channel still holds.
Oldest(ch) == ch.tail - Len(ch.buf)

Newest(ch) == ch.tail - 1

\* rx.recv() answers Err(Lagged(n)).
IsLagged(ch) == ch.next < Oldest(ch)

LagSend(c) ==
    /\ inp.kind = "lag" /\ inp.sends < MaxLagSends
    /\ inp' = [inp EXCEPT !.sends = @ + 1]
    /\ out' = [out EXCEPT !.buf = Retain(@, [id |-> out.tail, origin |-> <<c, 1>>]),
                          !.tail = @ + 1]
    /\ UNCHANGED <<mode, srvVars, netVars, cliVars, fileVars>>

LagRecvBreaks ==
    /\ inp.kind = "lag" /\ ~out.exited /\ out.next < out.tail
    /\ out' = [out EXCEPT !.exited = TRUE]
    /\ UNCHANGED <<mode, inp, srvVars, netVars, cliVars, fileVars>>

\* One turn of the forwarder's loop, the rx.recv() arm: a message is written
\* to the socket unless it came from the forwarder's own connection; on
\* Lagged(n) the receiver is moved to the oldest message still held, a
\* warning is logged and the loop goes on; a failed write ends the loop.
LagRecv ==
    /\ inp.kind = "lag" /\ ~out.exited /\ out.next < out.tail
    /\ IF IsLagged(out)
       THEN out' = [out EXCEPT !.next = Oldest(out),
                               !.missed = @ \cup (out.next..(Oldest(out) - 1))]
       ELSE LET msg == out.buf[out.next - Oldest(out) + 1]
            IN  IF ~ShouldForward(msg.origin, LagConn)
                THEN out' = [out EXCEPT !.next = @ + 1]
                ELSE IF out.open
                THEN out' = [out EXCEPT !.next = @ + 1,
                                        !.written = Append(@, msg.id)]
                ELSE out' = [out EXCEPT !.exited = TRUE]
    /\ UNCHANGED <<mode, inp, srvVars, netVars, cliVars, fileVars>>

\* The connection ends: its outgoing queue is closed.
LagClose ==
    /\ inp.kind = "lag" /\ out.open
    /\ out' = [out EXCEPT !.open = FALSE]
    /\ UNCHANGED <<mode, inp, srvVars, netVars, cliVars, fileVars>>

\* The other arm of the forwarder's select: tx_fwd.closed().
LagExit ==
    /\ inp.kind = "lag" /\ ~out.open /\ ~out.exited
    /\ out' = [out EXCEPT !.exited = TRUE]
    /\ UNCHANGED <<mode, inp, srvVars, netVars, cliVars, fileVars>>

InitLag ==
    /\ mode = "lag"
    /\ InitServer
    /\ up = [c \in Clients |-> FALSE]
    /\ epoch = [c \in Clients |-> 0]
    /\ sent = 0
    /\ restarts = 0
    /\ InitClients
    /\ InitFiles
    /\ inp = [kind |-> "lag", sends |-> 0]
    /\ out = [kind |-> "forwarder", buf |-> <<>>, tail |-> 0, next |-> 0,
              missed |-> {}, written |-> <<>>, open |-> TRUE, exited |-> FALSE]

NextLag ==
    \/ \E c \in Clients : LagSend(c)
    \/ LagRecv
    \/ LagClose
    \/ LagExit

SpecLag == InitLag /\ [][NextLag]_vars

\* ------------------------------------------------ path encoding on its own
\* str::replace(['/', '\\'], "_"): every '/' and every '\' becomes '_'.
replace(str) ==
    [i \in 1..Len(str) |-> IF str[i] \in {47, 92} THEN 95 ELSE str[i]]

\* The name crdt_state_path gives the snapshot of rel_path in the metadata
\* directory.
safe_name(rel_path) == replace(rel_path) \o <<46, 121, 114, 115>>

\* The doc_id start_file_sync gives the document of rel_path.
doc_id_of(rel_path) == replace(rel_path)

\* Relative paths of files in the folder: components joined by '/', none
\* empty; on a Unix disk '\' and '_' are characters of a name like any other.
RelPaths ==
    {p \in UNION {[1..n -> {97, 47, 92, 95}] : n \in 1..MaxPathLen} :
        /\ p[1] # 47 /\ p[Len(p)] # 47
        /\ \A i \in 1..(Len(p) - 1) : ~(p[i] = 47 /\ p[i + 1] = 47)}

\* start_file_sync names the documents of the two files.
NamesDocId ==
    /\ inp.kind = "names" /\ out = NoArg
    /\ out' = [kind |-> "ids", doc_id |-> [i \in 1..2 |-> doc_id_of(inp.paths[i])]]
    /\ UNCHANGED <<mode, inp, srvVars, netVars, cliVars, fileVars>>

\* persist_doc names their snapshots.
NamesPersist ==
    /\ inp.kind = "names" /\ out.kind = "ids"
    /\ out' = [kind |-> "named", doc_id |-> out.doc_id,
               state |-> [i \in 1..2 |-> safe_name(inp.paths[i])]]
    /\ UNCHANGED <<mode, inp, srvVars, netVars, cliVars, fileVars>>

InitNames ==
    /\ mode = "names"
    /\ InitServer
    /\ up = [c \in Clients |-> FALSE]
    /\ epoch = [c \in Clients |-> 0]
    /\ sent = 0
    /\ restarts = 0
    /\ InitClients
    /\ InitFiles
    /\ inp \in {[kind |-> "names", paths |-> pq] :
                   pq \in {x \in RelPaths \X RelPaths : x[1] # x[2]}}
    /\ out = NoArg

NextNames == NamesDocId \/ NamesPersist

SpecNames == InitNames /\ [][NextNames]_vars

\* ------------------------------------------------ update store on its own
\* The update_data a row may hold: one-operation updates and undecodable bytes.
StoreData == {EncUpdate({x}) : x \in Op} \cup {Corrupt}

StateVectors == [Clients -> 0..MaxClock]

\* save_update(d, data) on a table of fewer than MaxRows rows.
StoreSave(d, data) ==
    /\ Len(db) < MaxRows
    /\ db' = save_update(db, d, data)
    /\ inp' = NoArg /\ out' = NoArg
    /\ UNCHANGED <<mode, channels, first, fwd, saving, logged, srvpc, outq, netVars,
                   cliVars, fileVars>>

\* get_all_updates_since(d, sv) on the table as it is.
StoreQuery(d, sv) ==
    /\ inp' = [kind |-> "query", doc |-> d, sv |-> sv]
    /\ out' = [kind |-> "delta", update |-> get_all_updates_since(db, d, sv)]
    /\ UNCHANGED <<mode, srvVars, netVars, cliVars, fileVars>>

InitStore ==
    /\ mode = "store"
    /\ InitServer
    /\ up = [c \in Clients |-> FALSE]
    /\ epoch = [c \in Clients |-> 0]
    /\ sent = 0
    /\ restarts = 0
    /\ InitClients
    /\ InitPure
    /\ InitFiles

NextStore ==
    \/ \E d \in DocIds, data \in StoreData : StoreSave(d, data)
    \/ \E d \in DocIds, sv \in StateVectors : StoreQuery(d, sv)

SpecStore == InitStore /\ [][NextStore]_vars

\* ------------------------------------------------------ codec on its own
\* The characters doc_ids are made of: one, two and four bytes long.
Chars1 == <<97>>

Chars2 == <<195, 169>>

Chars4 == <<240, 159, 152, 128>>

Chars == {Chars1, Chars2, Chars4}

RECURSIVE Strings(_)
Strings(n) ==
    IF n = 0 THEN {<<>>}
    ELSE LET S == Strings(n - 1) IN S \cup {s \o c : s \in S, c \in Chars}

Pad(n) == [i \in 1..n |-> 97]

\* Short doc_ids, doc_ids around 255 bytes, and the longest doc_id whose
\* length fits a u16 with the one a byte longer.
CodecDocIds ==
    Strings(MaxChars) \cup {Pad(253) \o s : s \in Strings(MaxChars)}
    \cup {Pad(65535), Pad(65536)}

CodecPayloads == {<<>>, <<0>>, <<255, 128>>}

CodecTypes == {MSG_SYNC_STEP_1, MSG_SYNC_STEP_2, MSG_UPDATE, 255}

\* Bytes after a received frame's header: well-formed characters, a lone
\* continuation byte, truncated sequences, an overlong form, a surrogate, a
\* lead byte past U+10FFFF, and bytes no sequence contains.
ReceivedBodies ==
    {<<>>, <<97>>, <<97, 98>>, <<195, 169>>, <<195, 169, 0>>, <<226, 130, 172>>,
     <<240, 159, 152, 128>>, <<128>>, <<195>>, <<195, 97>>, <<226, 130>>,
     <<192, 128>>, <<224, 128, 128>>, <<237, 160, 128>>, <<237, 159, 191>>,
     <<240, 128, 128, 128>>, <<244, 144, 128, 128>>, <<245, 128, 128, 128>>,
     <<255>>, <<97, 255>>}

\* The doc_id lengths a received header declares.
DeclaredLengths == {<<0, 0>>, <<0, 1>>, <<0, 2>>, <<0, 3>>, <<0, 4>>, <<1, 0>>, <<255, 255>>}

\* Frames as they come off a socket: any bytes at all.
ReceivedFrames ==
    {<<>>, <<MSG_UPDATE>>, <<MSG_UPDATE, 0>>}
    \cup {<<t>> \o n \o b : t \in {MSG_SYNC_STEP_1, MSG_UPDATE}, n \in DeclaredLengths,
                             b \in ReceivedBodies}

CodecEncode ==
    /\ inp.kind = "frame" /\ out = NoArg
    /\ out' = [kind |-> "wire",
               data |-> encode_message(inp.msg_type, inp.doc_id, inp.payload)]
    /\ UNCHANGED <<mode, inp, srvVars, netVars, cliVars, fileVars>>

CodecDecode ==
    /\ out.kind = "wire"
    /\ out' = [kind |-> "decoded", frame |-> decode_message(out.data)]
    /\ UNCHANGED <<mode, inp, srvVars, netVars, cliVars, fileVars>>

\* decode_message on a received frame.
CodecReceive ==
    /\ inp.kind = "bytes" /\ out = NoArg
    /\ out' = [kind |-> "parsed", frame |-> decode_message(inp.data)]
    /\ UNCHANGED <<mode, inp, srvVars, netVars, cliVars, fileVars>>

InitCodec ==
    /\ mode = "codec"
    /\ InitServer
    /\ up = [c \in Clients |-> FALSE]
    /\ epoch = [c \in Clients |-> 0]
    /\ sent = 0
    /\ restarts = 0
    /\ InitClients
    /\ InitFiles
    /\ \/ inp \in {[kind |-> "frame", msg_type |-> t, doc_id |-> d, payload |-> p] :
                      t \in CodecTypes, d \in CodecDocIds, p \in CodecPayloads}
       \/ inp \in {[kind |-> "bytes", data |-> b] : b \in ReceivedFrames}
    /\ out = NoArg

NextCodec == CodecEncode \/ CodecDecode \/ CodecReceive

SpecCodec == InitCodec /\ [][NextCodec]_vars

\* ------------------------------------------------------- diff on its own
\* A string is a sequence of characters, a character its UTF-8 bytes.
CharStrings(n) == UNION {[1..k -> Chars] : k \in 0..n}

RECURSIVE Flatten(_)
Flatten(cs) == IF cs = <<>> THEN <<>> ELSE Head(cs) \o Flatten(Tail(cs))

chars_count(value) == 1

\* str::len of a change's value: its length in bytes.
str_len(value) == Len(value)

\* Text::insert at a byte offset; an offset past the end panics.
TextInsert(content, index, value) ==
    IF index <= Len(content)
    THEN [ok |-> TRUE,
          content |-> SubSeq(content, 1, index) \o value
                      \o SubSeq(content, index + 1, Len(content))]
    ELSE [ok |-> FALSE, content |-> content]

\* Text::remove_range of len bytes at a byte offset; a range past the end panics.
TextRemoveRange(content, index, len) ==
    IF index + len <= Len(content)
    THEN [ok |-> TRUE,
          content |-> SubSeq(content, 1, index)
                      \o SubSeq(content, index + len + 1, Len(content))]
    ELSE [ok |-> FALSE, content |-> content]

CursorAdvances(cursor, len) == cursor + len

\* ChangeTag::Delete leaves the cursor where it is.
CursorAfterDelete(cursor, len) == cursor

\* apply_diff_to_yrs is entered: the transaction is open, cursor = 0, and
\* the diff of old and new is about to be iterated (i, j: characters of old
\* and new the changes seen so far have covered).
DiffStart ==
    /\ inp.kind = "diff" /\ out = NoArg
    /\ out' = [kind |-> "diffing", content |-> Flatten(inp.old), ok |-> TRUE,
               cursor |-> 0, i |-> 0, j |-> 0,
               last |-> [tag |-> "none", at |-> 0, n |-> 0, size |-> 0]]
    /\ UNCHANGED <<mode, inp, srvVars, netVars, cliVars, fileVars>>

\* The next change is Equal: a character old and new share.
DiffEqual ==
    /\ out.kind = "diffing" /\ out.ok
    /\ out.i < Len(inp.old) /\ out.j < Len(inp.new)
    /\ inp.old[out.i + 1] = inp.new[out.j + 1]
    /\ LET len == str_len(inp.old[out.i + 1])
       IN  out' = [out EXCEPT !.cursor = @ + len, !.i = @ + 1, !.j = @ + 1,
                              !.last = [tag |-> "equal", at |-> out.cursor, n |-> len,
                                        size |-> Len(out.content)]]
    /\ UNCHANGED <<mode, inp, srvVars, netVars, cliVars, fileVars>>

\* The next change is Delete: a character of old.
DiffDelete ==
    /\ out.kind = "diffing" /\ out.ok
    /\ out.i < Len(inp.old)
    /\ LET len == str_len(inp.old[out.i + 1])
           r == TextRemoveRange(out.content, out.cursor, len)
       IN  out' = [out EXCEPT !.content = r.content, !.ok = r.ok,
                              !.cursor = CursorAfterDelete(out.cursor, len),
                              !.i = @ + 1,
                              !.last = [tag |-> "delete", at |-> out.cursor, n |-> len,
                                        size |-> Len(out.content)]]
    /\ UNCHANGED <<mode, inp, srvVars, netVars, cliVars, fileVars>>

\* The next change is Insert: a character of new.
DiffInsert ==
    /\ out.kind = "diffing" /\ out.ok
    /\ out.j < Len(inp.new)
    /\ LET val == inp.new[out.j + 1]
           len == str_len(val)
           r == TextInsert(out.content, out.cursor, val)
       IN  out' = [out EXCEPT !.content = r.content, !.ok = r.ok,
                              !.cursor = @ + len, !.j = @ + 1,
                              !.last = [tag |-> "insert", at |-> out.cursor, n |-> len,
                                        size |-> Len(out.content)]]
    /\ UNCHANGED <<mode, inp, srvVars, netVars, cliVars, fileVars>>

\* The changes are exhausted and the transaction commits.
DiffReturn ==
    /\ out.kind = "diffing" /\ out.ok
    /\ out.i = Len(inp.old) /\ out.j = Len(inp.new)
    /\ out' = [out EXCEPT !.kind = "diffed"]
    /\ UNCHANGED <<mode, inp, srvVars, netVars, cliVars, fileVars>>

InitDiff ==
    /\ mode = "diff"
    /\ InitServer
    /\ up = [c \in Clients |-> FALSE]
    /\ epoch = [c \in Clients |-> 0]
    /\ sent = 0
    /\ restarts = 0
    /\ InitClients
    /\ InitFiles
    /\ inp \in {[kind |-> "diff", old |-> o, new |-> n] :
                   o \in CharStrings(MaxDiffChars), n \in CharStrings(MaxDiffChars)}
    /\ out = NoArg

NextDiff == DiffStart \/ DiffEqual \/ DiffDelete \/ DiffInsert \/ DiffReturn

SpecDiff == InitDiff /\ [][NextDiff]_vars

\* -------------------------------------------- snapshot storage on its own
\* A text document: the operations it holds and those of them it deleted.
NewDoc == [ops |-> {}, ds |-> {}]

TextOf(doc) == GetString(doc.ops) \ doc.ds

NoSnapshot == [kind |-> "absent"]

save_doc_delta(doc) ==
    [kind |-> "update", ops |-> EncodeStateAsUpdate(doc.ops, StateVectorOf(doc.ops)),
     ds |-> doc.ds]

\* save_doc: the whole state, delete set included, as one update.
save_doc(doc) ==
    [kind |-> "update", ops |-> EncodeStateAsUpdate(doc.ops, EmptySV), ds |-> doc.ds]

\* load_doc: the update applied to a fresh document.
load_doc(bytes) == [ops |-> ApplyUpdate({}, bytes), ds |-> bytes.ds]

\* The document in hand is edited by its own client: one more insertion.
StorageInsert ==
    /\ inp.kind = "doc"
    /\ LET k == Cardinality({x \in inp.doc.ops : x.o = inp.client}) + 1
       IN  /\ k <= MaxClock
           /\ inp' = [inp EXCEPT !.doc.ops = @ \cup {[o |-> inp.client, k |-> k]}]
    /\ UNCHANGED <<mode, out, srvVars, netVars, cliVars, fileVars>>

\* The document in hand is edited: some text is removed.
StorageDelete ==
    /\ inp.kind = "doc"
    /\ \E x \in TextOf(inp.doc) : inp' = [inp EXCEPT !.doc.ds = @ \cup {x}]
    /\ UNCHANGED <<mode, out, srvVars, netVars, cliVars, fileVars>>

\* An update of another client is applied to the document in hand; it may
\* depend on operations the document lacks and then stays pending.
StorageRemote ==
    /\ inp.kind = "doc"
    /\ \E x \in Op :
          /\ x.o # inp.client /\ x \notin inp.doc.ops
          /\ inp' = [inp EXCEPT !.doc.ops = ApplyUpdate(@, EncUpdate({x}))]
    /\ UNCHANGED <<mode, out, srvVars, netVars, cliVars, fileVars>>

StorageSave ==
    /\ inp.kind = "doc"
    /\ out' = [out EXCEPT !.file = save_doc(inp.doc), !.saved = TextOf(inp.doc),
                          !.loaded = NewDoc, !.fresh = FALSE]
    /\ UNCHANGED <<mode, inp, srvVars, netVars, cliVars, fileVars>>

StorageLoad ==
    /\ inp.kind = "doc" /\ out.file # NoSnapshot
    /\ out.loads < MaxLoads
    /\ out' = [out EXCEPT !.loaded = load_doc(out.file), !.fresh = TRUE, !.loads = @ + 1]
    /\ UNCHANGED <<mode, inp, srvVars, netVars, cliVars, fileVars>>

\* Work goes on with the loaded document, a Doc::new() with its own client id.
StorageContinue ==
    /\ inp.kind = "doc" /\ out.fresh /\ inp.client = "A"
    /\ inp' = [inp EXCEPT !.doc = out.loaded, !.client = "B"]
    /\ out' = [out EXCEPT !.fresh = FALSE, !.loaded = NewDoc]
    /\ UNCHANGED <<mode, srvVars, netVars, cliVars, fileVars>>

InitStorage ==
    /\ mode = "storage"
    /\ InitServer
    /\ up = [c \in Clients |-> FALSE]
    /\ epoch = [c \in Clients |-> 0]
    /\ sent = 0
    /\ restarts = 0
    /\ InitClients
    /\ InitFiles
    /\ inp = [kind |-> "doc", doc |-> NewDoc, client |-> "A"]
    /\ out = [kind |-> "fs", file |-> NoSnapshot, saved |-> {}, loaded |-> NewDoc,
              fresh |-> FALSE, loads |-> 0]

NextStorage ==
    \/ StorageInsert \/ StorageDelete \/ StorageRemote
    \/ StorageSave \/ StorageLoad \/ StorageContinue

SpecStorage == InitStorage /\ [][NextStorage]_vars

\* ------------------------------------------- bootstrap scanner on its own
\* Entries of the root directory, as the names on their paths.
BootFiles == {"a.md", "d/b.txt", "c.png", ".syncline/x.md"}

components ==
    [p \in BootFiles |->
        IF p = "a.md" THEN <<"a.md">>
        ELSE IF p = "d/b.txt" THEN <<"d", "b.txt">>
        ELSE IF p = "c.png" THEN <<"c.png">>
        ELSE <<".syncline", "x.md">>]

file_extension ==
    [p \in BootFiles |-> IF p \in {"a.md", ".syncline/x.md"} THEN "md"
                         ELSE IF p = "d/b.txt" THEN "txt" ELSE "png"]

\* Names that start with ".git" or ".syncline".
HiddenNames == {".git", ".gitignore", ".syncline"}

\* The walk's filter_entry: an entry is yielded unless its name or the name
\* of a directory above it is hidden.
filter_entry(p) == \A i \in 1..Len(components[p]) : components[p][i] \notin HiddenNames

\* Texts a file holds, as sequences of characters.
BootTexts == CharStrings(1)

NoFile == [kind |-> "absent"]

\* A file whose bytes are not UTF-8: read_to_string fails on it.
NotUtf8 == [kind |-> "bytes"]

TextFile(t) == [kind |-> "text", text |-> t]

\* A snapshot file that Update::decode_v1 rejects.
CorruptSnapshot == [kind |-> "corrupt"]

\* str::chars: the characters of a string, given as its bytes.
RECURSIVE chars(_)
chars(s) ==
    IF s = <<>> THEN <<>>
    ELSE LET n == IF SequenceLength(s[1]) = 0 THEN 1 ELSE SequenceLength(s[1])
         IN  <<SubSeq(s, 1, n)>> \o chars(SubSeq(s, n + 1, Len(s)))

\* One diff of two character sequences: shared characters where the heads
\* agree, deletions before insertions elsewhere.
RECURSIVE iter_all_changes(_, _)
iter_all_changes(old, new) ==
    IF old = <<>> /\ new = <<>> THEN <<>>
    ELSE IF old # <<>> /\ new # <<>> /\ Head(old) = Head(new)
    THEN <<[tag |-> "equal", value |-> Head(old)]>>
         \o iter_all_changes(Tail(old), Tail(new))
    ELSE IF old # <<>>
    THEN <<[tag |-> "delete", value |-> Head(old)]>> \o iter_all_changes(Tail(old), new)
    ELSE <<[tag |-> "insert", value |-> Head(new)]>> \o iter_all_changes(old, Tail(new))

\* The loop of apply_diff_to_yrs over the changes, from a cursor.
RECURSIVE ApplyChanges(_, _, _)
ApplyChanges(content, cursor, changes) ==
    IF changes = <<>> THEN content
    ELSE LET c == Head(changes)
             len == str_len(c.value)
         IN  IF c.tag = "equal"
             THEN ApplyChanges(content, cursor + len, Tail(changes))
             ELSE IF c.tag = "delete"
             THEN ApplyChanges(TextRemoveRange(content, cursor, len).content,
                               CursorAfterDelete(cursor, len), Tail(changes))
             ELSE ApplyChanges(TextInsert(content, cursor, c.value).content,
                               cursor + len, Tail(changes))

\* apply_diff_to_yrs on a document holding old_content.
apply_diff_to_yrs(old_content, new_content) ==
    ApplyChanges(old_content, 0, iter_all_changes(chars(old_content), chars(new_content)))

\* save_doc and load_doc of a document, as the text it holds.
save_text(content) == [kind |-> "update", text |-> content]

load_text(file) == file.text

AlwaysModified(disk_content, yjs_content) == TRUE

\* The test for an offline edit.
IsModified(disk_content, yjs_content) == disk_content # yjs_content

SaveErrorReturns(o, p) == [o EXCEPT !.kind = "scanned", !.ok = FALSE, !.todo = {},
                                    !.failed = @ \cup {p}]

\* save_doc failed: the error is logged and the loop goes on.
SaveError(o, p) == [o EXCEPT !.failed = @ \cup {p}]

\* The files the walk yields.
WalkEntries == {p \in BootFiles : inp.disk[p] # NoFile /\ filter_entry(p)}

BootIdle == out.kind \in {"idle", "scanned"}

\* While the program is not running, a user writes or removes a file.
BootWrite ==
    /\ inp.kind = "folder" /\ BootIdle /\ inp.edits < MaxBootEdits
    /\ \E p \in BootFiles, f \in {NoFile, NotUtf8} \cup {TextFile(t) : t \in BootTexts} :
          /\ f # inp.disk[p]
          /\ f = NotUtf8 => p = "a.md"
          /\ inp' = [inp EXCEPT !.disk[p] = f, !.edits = @ + 1, !.dirty = TRUE]
    /\ UNCHANGED <<mode, out, srvVars, netVars, cliVars, fileVars>>

\* While the program is not running, a snapshot file is damaged.
BootCorrupt ==
    /\ inp.kind = "folder" /\ BootIdle /\ inp.edits < MaxBootEdits
    /\ \E p \in BootFiles :
          /\ inp.state[p].kind = "update"
          /\ inp' = [inp EXCEPT !.state[p] = CorruptSnapshot, !.edits = @ + 1,
                                !.dirty = TRUE]
    /\ UNCHANGED <<mode, out, srvVars, netVars, cliVars, fileVars>>

\* bootstrap_offline_changes is called: the walk starts.
BootStart ==
    /\ inp.kind = "folder" /\ BootIdle /\ out.runs < MaxBootRuns
    /\ out' = [kind |-> "scanning", todo |-> WalkEntries, modified |-> <<>>,
               visited |-> <<>>, ok |-> TRUE, failed |-> {}, before |-> inp.state,
               runs |-> out.runs + 1,
               again |-> out.kind = "scanned" /\ ~inp.dirty]
    /\ inp' = [inp EXCEPT !.dirty = FALSE]
    /\ UNCHANGED <<mode, srvVars, netVars, cliVars, fileVars>>

\* One iteration of the loop, on the entry the walk yields next.
BootVisit ==
    /\ inp.kind = "folder" /\ out.kind = "scanning"
    /\ \E p \in out.todo :
         LET o == [out EXCEPT !.todo = @ \ {p}, !.visited = Append(@, p)]
             file == inp.disk[p]
             saved == inp.state[p]
         IN  IF file_extension[p] # "md" /\ file_extension[p] # "txt"
             THEN out' = o /\ inp' = inp
             ELSE IF file = NotUtf8
             THEN out' = [o EXCEPT !.failed = @ \cup {p}] /\ inp' = inp
             ELSE IF saved # NoSnapshot
             THEN IF saved = CorruptSnapshot
                  THEN out' = [o EXCEPT !.failed = @ \cup {p}] /\ inp' = inp
                  ELSE LET disk_content == Flatten(file.text)
                           yjs_content == load_text(saved)
                       IN  IF IsModified(disk_content, yjs_content)
                           THEN IF inp.writable[p]
                                THEN /\ inp' = [inp EXCEPT !.state[p] = save_text(
                                           apply_diff_to_yrs(yjs_content, disk_content))]
                                     /\ out' = [o EXCEPT !.modified = Append(@, p)]
                                ELSE out' = SaveError(o, p) /\ inp' = inp
                           ELSE out' = o /\ inp' = inp
             ELSE IF inp.writable[p]
                  THEN /\ inp' = [inp EXCEPT !.state[p] = save_text(
                                     TextInsert(<<>>, 0, Flatten(file.text)).content)]
                       /\ out' = [o EXCEPT !.modified = Append(@, p)]
                  ELSE out' = SaveError(o, p) /\ inp' = inp
    /\ UNCHANGED <<mode, srvVars, netVars, cliVars, fileVars>>

\* The walk is exhausted: Ok(modified_docs).
BootReturn ==
    /\ inp.kind = "folder" /\ out.kind = "scanning" /\ out.todo = {}
    /\ out' = [out EXCEPT !.kind = "scanned"]
    /\ UNCHANGED <<mode, inp, srvVars, netVars, cliVars, fileVars>>

InitBootstrap ==
    /\ mode = "bootstrap"
    /\ InitServer
    /\ up = [c \in Clients |-> FALSE]
    /\ epoch = [c \in Clients |-> 0]
    /\ sent = 0
    /\ restarts = 0
    /\ InitClients
    /\ InitFiles
    /\ \E w \in [BootFiles -> BOOLEAN] :
          inp = [kind |-> "folder",
                 disk |-> [p \in BootFiles |->
                            IF p \in {"c.png", ".syncline/x.md"}
                            THEN TextFile(<<Chars1>>) ELSE NoFile],
                 state |-> [p \in BootFiles |-> NoSnapshot], writable |-> w,
                 edits |-> 0, dirty |-> FALSE]
    /\ out = [kind |-> "idle", todo |-> {}, modified |-> <<>>, visited |-> <<>>,
              ok |-> TRUE, failed |-> {}, before |-> [p \in BootFiles |-> NoSnapshot],
              runs |-> 0, again |-> FALSE]

NextBootstrap == BootWrite \/ BootCorrupt \/ BootStart \/ BootVisit \/ BootReturn

SpecBootstrap == InitBootstrap /\ [][NextBootstrap]_vars

\* -------------------------------------------- outbound channel on its own
\* The Client of replica "A" with its one document: local edits fill the
\* outbound channel, the main loop of an open connection empties it.
ChanAddDoc ==
    /\ mode = "channel" /\ ~registered["A"]
    /\ registered' = [registered EXCEPT !["A"] = TRUE]
    /\ mpsc' = [mpsc EXCEPT !["A"] =
                  Append(@, Frame(MSG_SYNC_STEP_1, TheDoc, EncSV(StateVectorOf(cdoc["A"]))))]
    /\ UNCHANGED <<mode, pureVars, fileVars, srvVars, netVars, cdoc, suppress, applying,
                   offline>>

\* A local write transaction commits; the observer, if attached, runs.
ChanEdit ==
    /\ mode = "channel" /\ Cardinality(cdoc["A"]) < MaxChanEdits
    /\ LET op == [o |-> "A", k |-> Cardinality(cdoc["A"]) + 1]
       IN  /\ cdoc' = [cdoc EXCEPT !["A"] = @ \cup {op}]
           /\ mpsc' = [mpsc EXCEPT !["A"] =
                         IF registered["A"] THEN Observer("A", {op}, @) ELSE @]
    /\ UNCHANGED <<mode, pureVars, fileVars, srvVars, netVars, registered, suppress,
                   applying, offline>>

\* The connect loop has a connection and is in its main loop.
ChanUp ==
    /\ mode = "channel" /\ ~up["A"]
    /\ up' = [up EXCEPT !["A"] = TRUE]
    /\ UNCHANGED <<mode, pureVars, fileVars, srvVars, epoch, sent, restarts, cliVars>>

\* The connection is lost; the loop sleeps and retries.
ChanDown ==
    /\ mode = "channel" /\ up["A"]
    /\ up' = [up EXCEPT !["A"] = FALSE]
    /\ UNCHANGED <<mode, pureVars, fileVars, srvVars, epoch, sent, restarts, cliVars>>

\* Main loop, outbound arm: rx.recv() yields a message and it is written.
ChanSend ==
    /\ mode = "channel" /\ up["A"] /\ mpsc["A"] # <<>>
    /\ mpsc' = [mpsc EXCEPT !["A"] = Tail(@)]
    /\ UNCHANGED <<mode, pureVars, fileVars, srvVars, netVars, cdoc, registered, suppress,
                   applying, offline>>

InitChannel ==
    /\ mode = "channel"
    /\ InitServer
    /\ up = [c \in Clients |-> FALSE]
    /\ epoch = [c \in Clients |-> 0]
    /\ sent = 0
    /\ restarts = 0
    /\ InitClients
    /\ InitPure
    /\ InitFiles

NextChannel == ChanAddDoc \/ ChanEdit \/ ChanUp \/ ChanDown \/ ChanSend

SpecChannel == InitChannel /\ [][NextChannel]_vars

\* ------------------------------------------------ connect loop on its own
\* The task Client::new spawns, for the Client of replica "A": inp holds what
\* the task does not control (whether the server accepts connections, the
\* registry of documents, whether the Client handle still exists), out the
\* task's own state, mpsc["A"] the outbound channel and up["A"] whether the
\* WebSocket of the current connection is open.
NotRegistered == [kind |-> "none"]

Registered(D) == [kind |-> "doc", ops |-> D]

RegisteredDocs(docs) == {d \in DocIds : docs[d] # NotRegistered}

\* Every sender of the outbound channel is gone: the Client handle is dropped
\* and no registered document's observer holds a clone.
ChannelClosed == inp.dropped /\ RegisteredDocs(inp.docs) = {}

\* The orders a HashMap may iterate a set of keys in.
Orders(S) == {q \in [1..Cardinality(S) -> S] : \A i, j \in 1..Cardinality(S) : q[i] = q[j] => i = j}

StateFilterDropsAll(update) == TRUE

\* The handshake's filter on a document's full state: update.is_empty().
StateFilter(update) == is_empty(update)

ConnectErrorReturns(o) == [o EXCEPT !.pc = "returned", !.failed = TRUE]

\* connect_async failed: the error is logged and the loop sleeps.
ConnectError(o) == [o EXCEPT !.pc = "sleep", !.failed = TRUE]

\* The server starts accepting connections.
NetUp ==
    /\ inp.kind = "net" /\ ~inp.reachable /\ inp.changes < MaxNetChanges
    /\ inp' = [inp EXCEPT !.reachable = TRUE, !.changes = @ + 1]
    /\ UNCHANGED <<mode, out, srvVars, netVars, cliVars, fileVars>>

\* The server stops: it accepts no connection and open sockets fail.
NetDown ==
    /\ inp.kind = "net" /\ inp.reachable /\ inp.changes < MaxNetChanges
    /\ inp' = [inp EXCEPT !.reachable = FALSE, !.changes = @ + 1]
    /\ up' = [up EXCEPT !["A"] = FALSE]
    /\ UNCHANGED <<mode, out, srvVars, epoch, sent, restarts, cliVars, fileVars>>

\* The open socket is closed by the peer or fails.
SocketClose ==
    /\ inp.kind = "net" /\ up["A"] /\ inp.changes < MaxNetChanges
    /\ inp' = [inp EXCEPT !.changes = @ + 1]
    /\ up' = [up EXCEPT !["A"] = FALSE]
    /\ UNCHANGED <<mode, out, srvVars, epoch, sent, restarts, cliVars, fileVars>>

\* add_doc: the document enters the registry and SYNC_STEP_1 is put on the
\* outbound channel.
ConnAddDoc ==
    /\ inp.kind = "net" /\ ~inp.dropped /\ inp.changes < MaxNetChanges
    /\ \E d \in DocIds, D \in {{}, {[o |-> "A", k |-> 1]}} :
          /\ inp.docs[d] = NotRegistered
          /\ inp' = [inp EXCEPT !.docs[d] = Registered(D), !.changes = @ + 1]
          /\ mpsc' = [mpsc EXCEPT !["A"] =
                        Append(@, Frame(MSG_SYNC_STEP_1, d, EncSV(StateVectorOf(D))))]
    /\ UNCHANGED <<mode, out, srvVars, netVars, cdoc, registered, suppress, applying,
                   offline, fileVars>>

\* A local transaction on a registered document commits; its observer puts
\* the update on the outbound channel.
ConnEdit ==
    /\ inp.kind = "net" /\ inp.changes < MaxNetChanges
    /\ \E d \in RegisteredDocs(inp.docs) :
          LET op == [o |-> "A", k |-> Cardinality(inp.docs[d].ops) + 1]
          IN  /\ op.k <= MaxClock
              /\ inp' = [inp EXCEPT !.docs[d].ops = @ \cup {op}, !.changes = @ + 1]
              /\ mpsc' = [mpsc EXCEPT !["A"] =
                            try_send(@, Frame(MSG_UPDATE, d, EncUpdate({op})))]
    /\ UNCHANGED <<mode, out, srvVars, netVars, cdoc, registered, suppress, applying,
                   offline, fileVars>>

\* The Client handle is dropped.
ConnDrop ==
    /\ inp.kind = "net" /\ ~inp.dropped /\ inp.changes < MaxNetChanges
    /\ inp' = [inp EXCEPT !.dropped = TRUE, !.changes = @ + 1]
    /\ UNCHANGED <<mode, out, srvVars, netVars, cliVars, fileVars>>

\* connect_async returns.
ConnAttempt ==
    /\ inp.kind = "net" /\ out.pc = "connect"
    /\ IF inp.reachable
       THEN /\ out' = [out EXCEPT !.pc = "vectors", !.wire = <<>>, !.tried = <<>>,
                                  !.seen1 = [d \in DocIds |-> NotRegistered],
                                  !.seen2 = [d \in DocIds |-> NotRegistered]]
            /\ up' = [up EXCEPT !["A"] = TRUE]
            /\ epoch' = [epoch EXCEPT !["A"] = @ + 1]
       ELSE /\ out' = ConnectError(out)
            /\ UNCHANGED <<up, epoch>>
    /\ UNCHANGED <<mode, inp, srvVars, sent, restarts, cliVars, fileVars>>

\* The registry is read and a SYNC_STEP_1 is built for every document.
ConnCollectVectors ==
    /\ inp.kind = "net" /\ out.pc = "vectors"
    /\ \E q \in Orders(RegisteredDocs(inp.docs)) :
          out' = [out EXCEPT
                    !.pc = "send1", !.seen1 = inp.docs,
                    !.todo = [i \in DOMAIN q |->
                                Frame(MSG_SYNC_STEP_1, q[i],
                                      EncSV(StateVectorOf(inp.docs[q[i]].ops)))]]
    /\ UNCHANGED <<mode, inp, srvVars, netVars, cliVars, fileVars>>

\* The registry is read again and an UPDATE with the full state is built for
\* every document whose state passes the filter.
ConnCollectStates ==
    /\ inp.kind = "net" /\ out.pc = "send1" /\ out.todo = <<>>
    /\ \E q \in Orders({d \in RegisteredDocs(inp.docs) :
                          ~StateFilter(EncUpdate(EncodeStateAsUpdate(inp.docs[d].ops,
                                                                     EmptySV)))}) :
          out' = [out EXCEPT
                    !.pc = "send2", !.seen2 = inp.docs,
                    !.todo = [i \in DOMAIN q |->
                                Frame(MSG_UPDATE, q[i],
                                      EncUpdate(EncodeStateAsUpdate(inp.docs[q[i]].ops,
                                                                    EmptySV)))]]
    /\ UNCHANGED <<mode, inp, srvVars, netVars, cliVars, fileVars>>

\* write.send of the next handshake message; a failure is logged.
ConnWrite ==
    /\ inp.kind = "net" /\ out.pc \in {"send1", "send2"} /\ out.todo # <<>>
    /\ out' = [out EXCEPT !.todo = Tail(@), !.tried = Append(@, Head(out.todo)),
                          !.wire = IF up["A"] THEN Append(@, Head(out.todo)) ELSE @]
    /\ UNCHANGED <<mode, inp, srvVars, netVars, cliVars, fileVars>>

\* The handshake is written: the main loop is entered.
ConnEnterMain ==
    /\ inp.kind = "net" /\ out.pc = "send2" /\ out.todo = <<>>
    /\ out' = [out EXCEPT !.pc = "main", !.conns = @ + 1]
    /\ UNCHANGED <<mode, inp, srvVars, netVars, cliVars, fileVars>>

\* Main loop, outbound arm: a message of the channel is written; a failed
\* write leaves the main loop.
ConnMainSend ==
    /\ inp.kind = "net" /\ out.pc = "main" /\ mpsc["A"] # <<>>
    /\ mpsc' = [mpsc EXCEPT !["A"] = Tail(@)]
    /\ out' = IF up["A"] THEN [out EXCEPT !.wire = Append(@, Head(mpsc["A"]))]
              ELSE [out EXCEPT !.pc = "sleep"]
    /\ UNCHANGED <<mode, inp, srvVars, netVars, cdoc, registered, suppress, applying,
                   offline, fileVars>>

\* Main loop, outbound arm: the channel is closed and empty, the task returns.
ConnMainReturn ==
    /\ inp.kind = "net" /\ out.pc = "main" /\ mpsc["A"] = <<>> /\ ChannelClosed
    /\ out' = [out EXCEPT !.pc = "returned"]
    /\ UNCHANGED <<mode, inp, srvVars, netVars, cliVars, fileVars>>

\* Main loop, inbound arm: the stream yields Close, an error or its end.
ConnMainClosed ==
    /\ inp.kind = "net" /\ out.pc = "main" /\ ~up["A"]
    /\ out' = [out EXCEPT !.pc = "sleep"]
    /\ UNCHANGED <<mode, inp, srvVars, netVars, cliVars, fileVars>>

\* The sleep of two seconds ends and the loop starts over; a socket still
\* open was dropped with the streams.
ConnSleep ==
    /\ inp.kind = "net" /\ out.pc = "sleep"
    /\ out' = [out EXCEPT !.pc = "connect"]
    /\ up' = [up EXCEPT !["A"] = FALSE]
    /\ UNCHANGED <<mode, inp, srvVars, epoch, sent, restarts, cliVars, fileVars>>

InitConnect ==
    /\ mode = "connect"
    /\ InitServer
    /\ up = [c \in Clients |-> FALSE]
    /\ epoch = [c \in Clients |-> 0]
    /\ sent = 0
    /\ restarts = 0
    /\ InitClients
    /\ InitFiles
    /\ \E r \in BOOLEAN :
          inp = [kind |-> "net", reachable |-> r, changes |-> 0, dropped |-> FALSE,
                 docs |-> [d \in DocIds |-> NotRegistered]]
    /\ out = [kind |-> "loop", pc |-> "connect", todo |-> <<>>, tried |-> <<>>,
              wire |-> <<>>, conns |-> 0, failed |-> FALSE,
              seen1 |-> [d \in DocIds |-> NotRegistered],
              seen2 |-> [d \in DocIds |-> NotRegistered]]

ConnTask ==
    \/ ConnAttempt \/ ConnCollectVectors \/ ConnCollectStates \/ ConnWrite
    \/ ConnEnterMain \/ ConnMainSend \/ ConnMainReturn \/ ConnMainClosed \/ ConnSleep

NextConnect ==
    \/ NetUp \/ NetDown \/ SocketClose \/ ConnAddDoc \/ ConnEdit \/ ConnDrop
    \/ ConnTask

\* The runtime schedules the task: each of its steps is taken once it can be.
SpecConnect ==
    /\ InitConnect /\ [][NextConnect]_vars
    /\ WF_vars(ConnAttempt) /\ WF_vars(ConnCollectVectors) /\ WF_vars(ConnCollectStates)
    /\ WF_vars(ConnWrite) /\ WF_vars(ConnEnterMain) /\ WF_vars(ConnMainSend)
    /\ WF_vars(ConnMainReturn) /\ WF_vars(ConnMainClosed) /\ WF_vars(ConnSleep)

\* ------------------------------------- metadata directory filter on its own
\* One folder client between its startup scan and its watcher loop: inp is
\* the folder (the files in it and the watcher events queued), out what the
\* client has done (the keys it inserted into the index, the paths it called
\* start_file_sync for, the documents it sent frames for).
\* Files of the folder: user files, files a user puts under a .syncline
\* directory, and the snapshots the client writes.
ScanPaths ==
    {"n.md", "i.png", ".syncline/s.txt", "sub/.syncline/k.md",
     ".syncline/n.md.yrs", ".syncline/i.png.yrs", ".syncline/__index__.yrs",
     ".syncline/.syncline_.yrs"}

UserPaths == {"n.md", "i.png", ".syncline/s.txt", "sub/.syncline/k.md"}

path_components ==
    [p \in ScanPaths |->
        IF p = "n.md" THEN <<"n.md">>
        ELSE IF p = "i.png" THEN <<"i.png">>
        ELSE IF p = ".syncline/s.txt" THEN <<".syncline", "s.txt">>
        ELSE IF p = "sub/.syncline/k.md" THEN <<"sub", ".syncline", "k.md">>
        ELSE IF p = ".syncline/n.md.yrs" THEN <<".syncline", "n.md.yrs">>
        ELSE IF p = ".syncline/i.png.yrs" THEN <<".syncline", "i.png.yrs">>
        ELSE IF p = ".syncline/__index__.yrs" THEN <<".syncline", "__index__.yrs">>
        ELSE <<".syncline", ".syncline_.yrs">>]

path_extension ==
    [p \in ScanPaths |->
        IF p \in {"n.md", "sub/.syncline/k.md"} THEN "md"
        ELSE IF p = ".syncline/s.txt" THEN "txt"
        ELSE IF p = "i.png" THEN "png" ELSE "yrs"]

\* crdt_state_path: the snapshot of a document lies in the metadata directory
\* (".syncline/.syncline_.yrs" stands for the snapshot of any document whose
\* path is itself under a .syncline directory).
crdt_state_path ==
    [p \in ScanPaths |->
        IF p = "n.md" THEN ".syncline/n.md.yrs"
        ELSE IF p = "i.png" THEN ".syncline/i.png.yrs"
        ELSE ".syncline/.syncline_.yrs"]

IndexStatePath == ".syncline/__index__.yrs"

NeverSyncline(c) == FALSE

\* The test the scan and the watcher loop make on a component of a path.
IsSyncline(c) == c = ".syncline"

\* path.components().any(|c| c.as_os_str() == ".syncline")
InSyncline(p) == \E i \in 1..Len(path_components[p]) : IsSyncline(path_components[p][i])

\* Writes to the folder raise watcher events once the watcher is registered.
Raise(o, events, written) == IF o.pc = "watching" THEN events \cup written ELSE events

\* A user creates or modifies a file.
TreeWrite ==
    /\ inp.kind = "tree" /\ inp.ops < MaxTreeOps
    /\ \E p \in UserPaths :
          inp' = [inp EXCEPT !.files = @ \cup {p}, !.ops = @ + 1,
                             !.events = Raise(out, @, {p})]
    /\ UNCHANGED <<mode, out, srvVars, netVars, cliVars, fileVars>>

\* A user deletes a file.
TreeDelete ==
    /\ inp.kind = "tree" /\ inp.ops < MaxTreeOps
    /\ \E p \in UserPaths \cap inp.files :
          inp' = [inp EXCEPT !.files = @ \ {p}, !.ops = @ + 1,
                             !.events = Raise(out, @, {p})]
    /\ UNCHANGED <<mode, out, srvVars, netVars, cliVars, fileVars>>

\* main, step 3: the startup scan collects the watched files outside the
\* metadata directory, inserts them into the index (the update is persisted
\* and sent), and calls start_file_sync for each, which persists the
\* document and connects it; then the watcher is registered.
ScanLocalFiles ==
    /\ inp.kind = "tree" /\ out.pc = "scan"
    /\ LET local_files == {p \in inp.files :
                              /\ ~InSyncline(p)
                              /\ path_extension[p] \in {"md", "txt"}}
           written == {crdt_state_path[p] : p \in local_files}
                      \cup (IF local_files = {} THEN {} ELSE {IndexStatePath})
       IN  /\ out' = [out EXCEPT !.pc = "watching",
                                 !.index = @ \cup local_files,
                                 !.started = @ \cup local_files,
                                 !.frames = @ \cup local_files,
                                 !.skipped = @ \cup {p \in inp.files : InSyncline(p)}]
           /\ inp' = [inp EXCEPT !.files = @ \cup written]
    /\ UNCHANGED <<mode, srvVars, netVars, cliVars, fileVars>>

\* The watcher loop takes the event of one path.
WatchEvent ==
    /\ inp.kind = "tree" /\ out.pc = "watching"
    /\ \E p \in inp.events :
         LET events == inp.events \ {p}
         IN  IF InSyncline(p)
             THEN /\ inp' = [inp EXCEPT !.events = events]
                  /\ out' = [out EXCEPT !.skipped = @ \cup {p}]
             ELSE IF p \in inp.files
             THEN LET written == (IF p \in out.index THEN {} ELSE {IndexStatePath})
                                 \cup {crdt_state_path[p]}
                  IN  /\ out' = [out EXCEPT !.index = @ \cup {p},
                                            !.started = @ \cup {p},
                                            !.frames = @ \cup {p}]
                      /\ inp' = [inp EXCEPT !.files = @ \cup written,
                                            !.events = events \cup written]
             ELSE LET written == IF p \in out.index THEN {IndexStatePath} ELSE {}
                  IN  /\ out' = [out EXCEPT !.index = @ \ {p}, !.started = @ \ {p}]
                      /\ inp' = [inp EXCEPT !.files = @ \cup written,
                                            !.events = events \cup written]
    /\ UNCHANGED <<mode, srvVars, netVars, cliVars, fileVars>>

InitMeta ==
    /\ mode = "meta"
    /\ InitServer
    /\ up = [c \in Clients |-> FALSE]
    /\ epoch = [c \in Clients |-> 0]
    /\ sent = 0
    /\ restarts = 0
    /\ InitClients
    /\ InitFiles
    /\ inp = [kind |-> "tree", files |-> {}, events |-> {}, ops |-> 0]
    /\ out = [kind |-> "client", pc |-> "scan", index |-> {}, started |-> {},
              frames |-> {}, skipped |-> {}]

NextMeta == TreeWrite \/ TreeDelete \/ ScanLocalFiles \/ WatchEvent

SpecMeta == InitMeta /\ [][NextMeta]_vars

\* ------------------------------------------ offline-edit step on its own
\* start_file_sync up to its first persist_doc, for one path whose file
\* exists and is readable: inp is the snapshot file and the file's bytes,
\* out the document.
B64Char(n) ==
    IF n < 26 THEN 65 + n
    ELSE IF n < 52 THEN 97 + (n - 26)
    ELSE IF n < 62 THEN 48 + (n - 52)
    ELSE IF n = 62 THEN 43 ELSE 47

\* BASE64_STANDARD.encode: three bytes to four characters, '=' padding.
RECURSIVE Base64Encode(_)
Base64Encode(b) ==
    IF b = <<>> THEN <<>>
    ELSE IF Len(b) = 1
    THEN <<B64Char(b[1] \div 4), B64Char((b[1] % 4) * 16), 61, 61>>
    ELSE IF Len(b) = 2
    THEN <<B64Char(b[1] \div 4), B64Char(((b[1] % 4) * 16) + (b[2] \div 16)),
           B64Char((b[2] % 16) * 4), 61>>
    ELSE <<B64Char(b[1] \div 4), B64Char(((b[1] % 4) * 16) + (b[2] \div 16)),
           B64Char(((b[2] % 16) * 4) + (b[3] \div 64)), B64Char(b[3] % 64)>>
         \o Base64Encode(SubSeq(b, 4, Len(b)))

\* "BINARY:"
BinaryPrefix == <<66, 73, 78, 65, 82, 89, 58>>

\* The file's bytes as the text the document should hold.
LocalContent(file_bytes) ==
    IF IsValidUtf8(file_bytes) THEN file_bytes
    ELSE BinaryPrefix \o Base64Encode(file_bytes)

\* The text of the document load_or_create_doc returns.
LoadedText(snapshot) == IF snapshot = NoFile THEN <<>> ELSE load_text(snapshot)

\* The loop over diff::chars: Left removes one unit at index, Right inserts
\* at index and adds one to it, Both adds one to it.
RECURSIVE ApplyByChar(_, _, _)
ApplyByChar(doc, index, changes) ==
    IF changes = <<>> \/ ~doc.ok THEN doc
    ELSE LET c == Head(changes)
         IN  IF c.tag = "equal" THEN ApplyByChar(doc, index + 1, Tail(changes))
             ELSE IF c.tag = "delete"
             THEN ApplyByChar(TextRemoveRange(doc.content, index, 1), index,
                              Tail(changes))
             ELSE ApplyByChar(TextInsert(doc.content, index, c.value), index + 1,
                              Tail(changes))

\* Step 2 of start_file_sync on a document holding current_doc_content.
OfflineEdit(current_doc_content, local_content) ==
    IF local_content = current_doc_content
    THEN [ok |-> TRUE, content |-> current_doc_content]
    ELSE IF current_doc_content = <<>> /\ local_content # <<>>
    THEN TextInsert(current_doc_content, 0, local_content)
    ELSE IF local_content # <<>>
    THEN ApplyByChar([ok |-> TRUE, content |-> current_doc_content], 0,
                     iter_all_changes(chars(current_doc_content), chars(local_content)))
    ELSE [ok |-> TRUE, content |-> current_doc_content]

\* Bytes that are not UTF-8.
BinaryFiles == {<<255>>, <<97, 255>>}

OfflineTexts == {Flatten(cs) : cs \in CharStrings(MaxDiffChars)}

\* Step 1: the document is loaded from the snapshot, or created.
OfflineLoad ==
    /\ inp.kind = "sfs" /\ out = NoArg
    /\ out' = [kind |-> "loaded", ok |-> TRUE, content |-> LoadedText(inp.snapshot)]
    /\ UNCHANGED <<mode, inp, srvVars, netVars, cliVars, fileVars>>

\* Step 2: the file is read and its difference applied to the document.
OfflineApply ==
    /\ inp.kind = "sfs" /\ out.kind = "loaded"
    /\ LET doc == OfflineEdit(out.content, LocalContent(inp.file))
       IN  out' = [out EXCEPT !.kind = IF doc.ok THEN "applied" ELSE "panicked",
                              !.ok = doc.ok, !.content = doc.content]
    /\ UNCHANGED <<mode, inp, srvVars, netVars, cliVars, fileVars>>

\* persist_doc: the snapshot is rewritten from the document.
OfflinePersist ==
    /\ inp.kind = "sfs" /\ out.kind = "applied"
    /\ inp' = [inp EXCEPT !.snapshot = save_text(out.content)]
    /\ out' = [out EXCEPT !.kind = "persisted"]
    /\ UNCHANGED <<mode, srvVars, netVars, cliVars, fileVars>>

InitOffline ==
    /\ mode = "offline"
    /\ InitServer
    /\ up = [c \in Clients |-> FALSE]
    /\ epoch = [c \in Clients |-> 0]
    /\ sent = 0
    /\ restarts = 0
    /\ InitClients
    /\ InitFiles
    /\ inp \in {[kind |-> "sfs", snapshot |-> s, file |-> f] :
                   s \in {NoFile} \cup {save_text(t) : t \in OfflineTexts},
                   f \in OfflineTexts \cup BinaryFiles}
    /\ out = NoArg

NextOffline == OfflineLoad \/ OfflineApply \/ OfflinePersist

SpecOffline == InitOffline /\ [][NextOffline]_vars

\* ----------------------------------------------- file round trip on its own
\* One file's bytes from the disk of one replica, through the document's
\* text, to the disk of another: inp is the file written, out the trip.
IsWhitespace(b) == b \in {9, 10, 13, 32}

\* str::trim, on ASCII white space.
RECURSIVE TrimStart(_)
TrimStart(s) ==
    IF s # <<>> /\ IsWhitespace(Head(s)) THEN TrimStart(Tail(s)) ELSE s

RECURSIVE TrimEnd(_)
TrimEnd(s) ==
    IF s # <<>> /\ IsWhitespace(s[Len(s)]) THEN TrimEnd(SubSeq(s, 1, Len(s) - 1)) ELSE s

trim(s) == TrimEnd(TrimStart(s))

starts_with(s, prefix) ==
    Len(s) >= Len(prefix) /\ SubSeq(s, 1, Len(prefix)) = prefix

\* chars().filter(|c| !c.is_whitespace()).collect()
RECURSIVE StripWhitespace(_)
StripWhitespace(s) ==
    IF s = <<>> THEN <<>>
    ELSE IF IsWhitespace(Head(s)) THEN StripWhitespace(Tail(s))
    ELSE <<Head(s)>> \o StripWhitespace(Tail(s))

\* The value of a character of the standard alphabet, -1 for any other.
B64Val(c) ==
    IF c >= 65 /\ c <= 90 THEN c - 65
    ELSE IF c >= 97 /\ c <= 122 THEN c - 71
    ELSE IF c >= 48 /\ c <= 57 THEN c + 4
    ELSE IF c = 43 THEN 62
    ELSE IF c = 47 THEN 63 ELSE 0 - 1

\* The bytes four characters at a time; '=' only at the end of the last four.
RECURSIVE Base64Bytes(_)
Base64Bytes(s) ==
    IF Len(s) < 4 THEN <<>>
    ELSE LET v == [i \in 1..4 |-> B64Val(s[i])]
             one == <<(v[1] * 4) + (v[2] \div 16)>>
             two == one \o <<((v[2] % 16) * 16) + (v[3] \div 4)>>
             three == two \o <<((v[3] % 4) * 64) + v[4]>>
         IN  IF Len(s) = 4 /\ s[3] = 61 /\ s[4] = 61 THEN one
             ELSE IF Len(s) = 4 /\ s[4] = 61 THEN two
             ELSE three \o Base64Bytes(SubSeq(s, 5, Len(s)))

\* BASE64_STANDARD.decode: Ok for the padded canonical encoding of some bytes.
Base64Decode(s) ==
    LET bytes == Base64Bytes(s)
        valid == /\ Len(s) % 4 = 0
                 /\ \A i \in 1..Len(s) : B64Val(s[i]) >= 0 \/ (s[i] = 61 /\ i > Len(s) - 2)
                 /\ Base64Encode(bytes) = s
    IN  IF valid THEN [ok |-> TRUE, bytes |-> bytes] ELSE [ok |-> FALSE, bytes |-> <<>>]

\* The inbound observer for a document whose text is content, on a file
\* holding current (NoFile if there is none): the file afterwards.
ObserverWrite(current, content) ==
    LET trimmed == trim(content)
    IN  IF starts_with(trimmed, BinaryPrefix)
        THEN LET b64 == SubSeq(trimmed, Len(BinaryPrefix) + 1, Len(trimmed))
                 dec == Base64Decode(StripWhitespace(b64))
             IN  IF dec.ok THEN dec.bytes ELSE current
        ELSE content

\* White space a text may start or end with.
Pads == {<<>>, <<32>>, <<10>>}

\* "BINARY:" alone, followed by the base64 of "hi", and by "!".
PrefixedTexts ==
    {BinaryPrefix, BinaryPrefix \o <<97, 71, 107, 61>>, BinaryPrefix \o <<33>>}

TripFiles ==
    {l \o b \o t : l \in Pads, t \in Pads, b \in OfflineTexts \cup PrefixedTexts}
    \cup BinaryFiles

\* The watcher of the first replica reads the file into the document's text.
TripRead ==
    /\ inp.kind = "trip" /\ out = NoArg
    /\ out' = [kind |-> "read", text |-> LocalContent(inp.bytes), file |-> NoFile]
    /\ UNCHANGED <<mode, inp, srvVars, netVars, cliVars, fileVars>>

\* The update reaches the document of the second replica.
TripRelay ==
    /\ inp.kind = "trip" /\ out.kind = "read"
    /\ out' = [out EXCEPT !.kind = "applied"]
    /\ UNCHANGED <<mode, inp, srvVars, netVars, cliVars, fileVars>>

\* The inbound observer of the second replica runs.
TripObserve ==
    /\ inp.kind = "trip" /\ out.kind = "applied"
    /\ out' = [out EXCEPT !.kind = "mirrored", !.file = ObserverWrite(NoFile, out.text)]
    /\ UNCHANGED <<mode, inp, srvVars, netVars, cliVars, fileVars>>

InitTrip ==
    /\ mode = "trip"
    /\ InitServer
    /\ up = [c \in Clients |-> FALSE]
    /\ epoch = [c \in Clients |-> 0]
    /\ sent = 0
    /\ restarts = 0
    /\ InitClients
    /\ InitFiles
    /\ inp \in {[kind |-> "trip", bytes |-> f] : f \in TripFiles}
    /\ out = NoArg

NextTrip == TripRead \/ TripRelay \/ TripObserve

SpecTrip == InitTrip /\ [][NextTrip]_vars

\* ----------------------------------------- sync_local_change on its own
\* One call of sync_local_change for an active handler whose file exists:
\* inp is the document's text and the file's bytes, out the call.
Min(a, b) == IF a <= b THEN a ELSE b

\* str::is_char_boundary
is_char_boundary(s, i) == i = 0 \/ i = Len(s) \/ (i < Len(s) /\ ~IsContinuation(s[i + 1]))

\* &s[..s.len().min(50)] of the log line: slicing inside a character panics.
LogSliceOk(s) == is_char_boundary(s, Min(Len(s), LogSliceLength))

\* 49 times 'a' and one two-byte character: byte 50 is inside the last one.
LongText == [i \in 1..(LogSliceLength - 1) |-> 97] \o Chars2

ReconcileTexts == OfflineTexts \cup {LongText}

\* The file is read and compared with the document's text.
RecRead ==
    /\ inp.kind = "reconcile" /\ out = NoArg
    /\ LET content == LocalContent(inp.file)
       IN  out' = [kind |-> IF content = inp.doc THEN "unchanged" ELSE "differs",
                   ok |-> TRUE, content |-> inp.doc, file_content |-> content]
    /\ UNCHANGED <<mode, inp, srvVars, netVars, cliVars, fileVars>>

\* The log line is formatted.
RecLog ==
    /\ inp.kind = "reconcile" /\ out.kind = "differs"
    /\ out' = IF LogSliceOk(out.content) /\ LogSliceOk(out.file_content)
              THEN [out EXCEPT !.kind = "logged"]
              ELSE [out EXCEPT !.kind = "returned", !.ok = FALSE]
    /\ UNCHANGED <<mode, inp, srvVars, netVars, cliVars, fileVars>>

\* The diff is applied in one transaction and the call returns.
RecApply ==
    /\ inp.kind = "reconcile" /\ out.kind = "logged"
    /\ LET doc == ApplyByChar([ok |-> TRUE, content |-> out.content], 0,
                              iter_all_changes(chars(out.content),
                                               chars(out.file_content)))
       IN  out' = [out EXCEPT !.kind = "returned", !.ok = doc.ok, !.content = doc.content]
    /\ UNCHANGED <<mode, inp, srvVars, netVars, cliVars, fileVars>>

\* The call returns at the comparison.
RecReturn ==
    /\ inp.kind = "reconcile" /\ out.kind = "unchanged"
    /\ out' = [out EXCEPT !.kind = "returned"]
    /\ UNCHANGED <<mode, inp, srvVars, netVars, cliVars, fileVars>>

InitReconcile ==
    /\ mode = "reconcile"
    /\ InitServer
    /\ up = [c \in Clients |-> FALSE]
    /\ epoch = [c \in Clients |-> 0]
    /\ sent = 0
    /\ restarts = 0
    /\ InitClients
    /\ InitFiles
    /\ inp \in {[kind |-> "reconcile", doc |-> d, file |-> f] :
                   d \in ReconcileTexts, f \in ReconcileTexts \cup BinaryFiles}
    /\ out = NoArg

NextReconcile == RecRead \/ RecLog \/ RecApply \/ RecReturn

SpecReconcile == InitReconcile /\ [][NextReconcile]_vars

\* ------------------------------------------------- mirror loop on its own
\* Two replicas with an active handler for one file, connected through the
\* relay: inp is the two disks (file, watcher event queued and its cause, the
\* content the user saved that no sync_local_change has compared yet), out
\* the two handlers (document text, updates on their way in, what the
\* watcher has read).  The mutations of these runs follow one another, so an
\* update is given as the text it leaves.
MirrorFiles == {<<120>>, <<121>>, <<32, 120, 10>>, BinaryPrefix,
                BinaryPrefix \o <<97, 71, 107, 61>>}

NoRead == [kind |-> "none"]

Other(r) == CHOOSE o \in Clients : o # r

\* The text observer of replica r after its document's text became content.
MirrorObserve(files, r, content) ==
    LET bytes == ObserverWrite(files.file[r], content)
    IN  IF bytes = files.file[r] THEN files
        ELSE [files EXCEPT !.file[r] = bytes,
                           !.wq[r] = IF @ = "user" THEN "user" ELSE "mirror"]

\* The user of replica r saves the file.
MirUserWrite(r, f) ==
    /\ inp.kind = "mirror" /\ inp.edits < MaxMirrorEdits
    /\ f # inp.file[r]
    /\ inp' = [inp EXCEPT !.file[r] = f, !.wq[r] = "user", !.edits = @ + 1,
                           !.unsynced[r] = {LocalContent(f)}]
    /\ UNCHANGED <<mode, out, srvVars, netVars, cliVars, fileVars>>

\* The watcher loop takes the event and sync_local_change reads the file.
MirWatchRead(r) ==
    /\ inp.kind = "mirror" /\ inp.wq[r] # "none" /\ out.held[r] = NoRead
    /\ out' = [out EXCEPT !.held[r] = [kind |-> "read", cause |-> inp.wq[r],
                                       content |-> LocalContent(inp.file[r])]]
    /\ inp' = [inp EXCEPT !.wq[r] = "none"]
    /\ UNCHANGED <<mode, srvVars, netVars, cliVars, fileVars>>

\* sync_local_change compares with the document and applies the diff; the
\* update goes to the other replica and the text observer runs.
MirWatchDiff(r) ==
    /\ inp.kind = "mirror" /\ out.held[r] # NoRead
    /\ LET content == out.held[r].content
       IN  IF content = out.doc[r]
           THEN /\ out' = [out EXCEPT !.held[r] = NoRead]
                /\ inp' = [inp EXCEPT !.unsynced[r] = @ \ {content}]
           ELSE /\ out' = [out EXCEPT !.held[r] = NoRead, !.doc[r] = content,
                                      !.inbox[Other(r)] = Append(@, content),
                                      !.echo = @ \/ out.held[r].cause = "mirror"]
                /\ inp' = [MirrorObserve(inp, r, content)
                              EXCEPT !.unsynced[r] = @ \ {content}]
    /\ UNCHANGED <<mode, srvVars, netVars, cliVars, fileVars>>

\* An update from the relay is applied to r's document; the text observer runs.
MirInbound(r) ==
    /\ inp.kind = "mirror" /\ out.inbox[r] # <<>>
    /\ LET content == Head(out.inbox[r])
       IN  /\ out' = [out EXCEPT !.inbox[r] = Tail(@), !.doc[r] = content]
           /\ inp' = IF content = out.doc[r] THEN inp ELSE MirrorObserve(inp, r, content)
    /\ UNCHANGED <<mode, srvVars, netVars, cliVars, fileVars>>

InitMirror ==
    /\ mode = "mirror"
    /\ InitServer
    /\ up = [c \in Clients |-> FALSE]
    /\ epoch = [c \in Clients |-> 0]
    /\ sent = 0
    /\ restarts = 0
    /\ InitClients
    /\ InitFiles
    /\ \E t \in {<<120>>, <<121>>} :
          /\ inp = [kind |-> "mirror", file |-> [r \in Clients |-> t],
                    wq |-> [r \in Clients |-> "none"],
                    unsynced |-> [r \in Clients |-> {}], edits |-> 0]
          /\ out = [kind |-> "handlers", doc |-> [r \in Clients |-> t],
                    inbox |-> [r \in Clients |-> <<>>],
                    held |-> [r \in Clients |-> NoRead], echo |-> FALSE]

NextMirror ==
    \/ \E r \in Clients, f \in MirrorFiles : MirUserWrite(r, f)
    \/ \E r \in Clients : MirWatchRead(r)
    \/ \E r \in Clients : MirWatchDiff(r)
    \/ \E r \in Clients : MirInbound(r)

SpecMirror == InitMirror /\ [][NextMirror]_vars

\* ------------------------------------------------ folder client on its own
otherVars == <<mode, pureVars, netVars, cliVars, srvVars>>

\* No document of the path holds text anywhere.
TextFree(p) ==
    /\ ~srvtext[p]
    /\ \A r \in Clients :
          /\ disk[r][p] # "text" /\ snap[r][p] # "text" /\ adoc[r][p] # "text"
          /\ \A t \in tasks[r] : t.path = p => t.doc # "text"

\* The user of replica r creates file p with content c (an empty file only
\* where no text was ever written).
UserCreate(r, p, c) ==
    /\ fops < MaxFileOps
    /\ disk[r][p] = Absent
    /\ c = "text" \/ TextFree(p)
    /\ disk' = [disk EXCEPT ![r][p] = c]
    /\ wq' = [wq EXCEPT ![r] = @ \cup {p}]
    /\ fops' = fops + 1
    /\ deleted' = [deleted EXCEPT ![p] = "nobody"]
    /\ UNCHANGED <<snap, idx, idxin, tasks, adoc, pending, srvtext, otherVars>>

\* The user of replica r deletes file p.
UserDelete(r, p) ==
    /\ fops < MaxFileOps
    /\ disk[r][p] # Absent
    /\ disk' = [disk EXCEPT ![r][p] = Absent]
    /\ wq' = [wq EXCEPT ![r] = @ \cup {p}]
    /\ fops' = fops + 1
    /\ deleted' = [deleted EXCEPT ![p] =
                      IF adoc[r][p] # Absent /\ contains_key(idx[r][p]) THEN r ELSE "nobody"]
    /\ UNCHANGED <<snap, idx, idxin, tasks, adoc, pending, srvtext, otherVars>>

\* The watcher loop handles an event for path p; it is not reading events
\* while it awaits a start_file_sync of its own.  (The entries written for
\* one key are capped.)
Watch(r, p) ==
    /\ p \in wq[r]
    /\ \A t \in tasks[r] : ~t.inline
    /\ disk[r][p] # Absent /\ ~contains_key(idx[r][p]) =>
          Cardinality(idx[r][p].ins) < MaxEntries
    /\ LET L0 == [Local(r) EXCEPT !.wq = @ \ {p}]
           m == idx[r][p]
       IN  IF disk[r][p] # Absent
           THEN LET ins == ~contains_key(m)
                    u == IndexInsert(m, r, p)
                    L1 == IF ins THEN IndexObserver(L0, r, p, contains_key(IndexApply(m, u)))
                          ELSE L0
                    active == adoc[r][p] # Absent
                    L2 == IF active THEN L1 ELSE try_claim(L1, r, p, TRUE)
                    d2 == sync_local_change(adoc[r][p], disk[r][p])
                IN  /\ idx' = IF ins THEN [idx EXCEPT ![r][p] = IndexApply(m, u)] ELSE idx
                    /\ idxin' = IF ins THEN Relay(r, u) ELSE idxin
                    /\ SetLocal(r, L2)
                    /\ adoc' = IF active THEN [adoc EXCEPT ![r][p] = d2] ELSE adoc
                    /\ srvtext' = IF active /\ d2 = "text"
                                  THEN [srvtext EXCEPT ![p] = TRUE] ELSE srvtext
           ELSE LET rem == contains_key(m)
                    u == IndexRemove(m, p)
                    L1 == IF rem THEN IndexObserver(L0, r, p, contains_key(IndexApply(m, u)))
                          ELSE L0
                IN  /\ idx' = IF rem THEN [idx EXCEPT ![r][p] = IndexApply(m, u)] ELSE idx
                    /\ idxin' = IF rem THEN Relay(r, u) ELSE idxin
                    /\ SetLocal(r, unclaim(L1, p))
                    /\ UNCHANGED <<adoc, srvtext>>
    /\ UNCHANGED <<fops, deleted, otherVars>>

\* An index update reaches replica r and is applied to its index document.
IndexDeliver(r) ==
    /\ idxin[r] # <<>>
    /\ LET u == Head(idxin[r])
           m == idx[r][u.path]
           m2 == IndexApply(m, u)
       IN  /\ idx' = [idx EXCEPT ![r][u.path] = m2]
           /\ SetLocal(r, IF m2 # m THEN IndexObserver(Local(r), r, u.path, contains_key(m2))
                          ELSE Local(r))
    /\ idxin' = [idxin EXCEPT ![r] = Tail(@)]
    /\ UNCHANGED <<adoc, srvtext, fops, deleted, otherVars>>

\* load_or_create_doc: the document restored from the snapshot, or a fresh one.
load_or_create_doc(snapshot) == IF snapshot = Absent THEN "empty" ELSE snapshot

\* start_file_sync, steps 1 and 2 and the first persist_doc.
SfsLoad(r, t) ==
    /\ t \in tasks[r] /\ t.pc = 1
    /\ LET doc == IF disk[r][t.path] = "text" THEN "text"
                  ELSE load_or_create_doc(snap[r][t.path])
       IN  /\ snap' = [snap EXCEPT ![r][t.path] = doc]
           /\ tasks' = [tasks EXCEPT ![r] = (@ \ {t}) \cup {[t EXCEPT !.pc = 2, !.doc = doc]}]
    /\ UNCHANGED <<disk, idx, idxin, adoc, pending, wq, srvtext, fops, deleted, otherVars>>

\* start_file_sync, steps 3 to 5: observe, connect, push the full state.
SfsConnect(r, t) ==
    /\ t \in tasks[r] /\ t.pc = 2
    /\ tasks' = [tasks EXCEPT ![r] = (@ \ {t}) \cup {[t EXCEPT !.pc = 3]}]
    /\ srvtext' = IF t.doc = "text" THEN [srvtext EXCEPT ![t.path] = TRUE] ELSE srvtext
    /\ UNCHANGED <<disk, snap, idx, idxin, adoc, pending, wq, fops, deleted, otherVars>>

\* The text observer after a change of the document to content: nothing if
\* the file already reads so, else the file and the snapshot are written.
TextObserver(L, p, content) ==
    IF L.disk[p] = content THEN L
    ELSE [L EXCEPT !.disk[p] = content, !.snap[p] = content, !.wq = @ \cup {p}]

\* Text the relay holds reaches the document of a start_file_sync in progress.
TaskInbound(r, t) ==
    /\ t \in tasks[r] /\ t.pc = 3
    /\ t.doc # "text" /\ srvtext[t.path]
    /\ SetLocal(r, [TextObserver(Local(r), t.path, "text") EXCEPT
                       !.tasks = (@ \ {t}) \cup {[t EXCEPT !.doc = "text"]}])
    /\ UNCHANGED <<idx, idxin, adoc, srvtext, fops, deleted, otherVars>>

\* Text the relay holds reaches the document of an active handler.
HandlerInbound(r, p) ==
    /\ adoc[r][p] = "empty" /\ srvtext[p]
    /\ adoc' = [adoc EXCEPT ![r][p] = "text"]
    /\ SetLocal(r, TextObserver(Local(r), p, "text"))
    /\ UNCHANGED <<idx, idxin, srvtext, fops, deleted, otherVars>>

\* start_file_sync after its sleep: persist_doc, the safety-net write,
\* sync_local_change and activate.
SfsFinish(r, t) ==
    /\ t \in tasks[r] /\ t.pc = 3
    /\ LET p == t.path
           L1 == [Local(r) EXCEPT !.snap[p] = t.doc]
           L2 == IF t.doc # "empty"
                 THEN [L1 EXCEPT !.disk[p] = t.doc, !.wq = @ \cup {p}] ELSE L1
           doc == sync_local_change(t.doc, L2.disk[p])
       IN  /\ SetLocal(r, [L2 EXCEPT !.pending = @ \ {p}, !.tasks = @ \ {t}])
           /\ adoc' = [adoc EXCEPT ![r][p] = doc]
           /\ srvtext' = IF doc = "text" THEN [srvtext EXCEPT ![p] = TRUE] ELSE srvtext
    /\ UNCHANGED <<idx, idxin, fops, deleted, otherVars>>

\* start_file_sync returns the error of Client::new; its caller logs it and
\* unclaims the path.
SfsError(r, t) ==
    /\ t \in tasks[r] /\ t.pc = 2
    /\ SetLocal(r, [unclaim(Local(r), t.path) EXCEPT !.tasks = @ \ {t}])
    /\ UNCHANGED <<idx, idxin, adoc, srvtext, fops, deleted, otherVars>>

\* A spawned start_file_sync panics in its last sync_local_change: the file
\* differs from the document and the log line cuts one of the two texts at
\* byte 50, inside a multi-byte character ("text" stands for any text, such
\* texts included).  The runtime drops the task; nobody unclaims.
SfsPanic(r, t) ==
    /\ t \in tasks[r] /\ t.pc = 3 /\ ~t.inline
    /\ LET p == t.path
           L1 == [Local(r) EXCEPT !.snap[p] = t.doc]
           L2 == IF t.doc # "empty"
                 THEN [L1 EXCEPT !.disk[p] = t.doc, !.wq = @ \cup {p}] ELSE L1
       IN  /\ L2.disk[p] # Absent /\ L2.disk[p] # t.doc
           /\ "text" \in {t.doc, L2.disk[p]}
           /\ SetLocal(r, [L2 EXCEPT !.tasks = @ \ {t}])
    /\ UNCHANGED <<idx, idxin, adoc, srvtext, fops, deleted, otherVars>>

InitFilesSpec ==
    /\ mode = "files"
    /\ InitServer
    /\ up = [c \in Clients |-> FALSE]
    /\ epoch = [c \in Clients |-> 0]
    /\ sent = 0
    /\ restarts = 0
    /\ InitClients
    /\ InitPure
    /\ InitFiles

NextFiles ==
    \/ \E r \in Clients, p \in Paths, c \in Contents : UserCreate(r, p, c)
    \/ \E r \in Clients, p \in Paths : UserDelete(r, p)
    \/ \E r \in Clients, p \in Paths : Watch(r, p)
    \/ \E r \in Clients : IndexDeliver(r)
    \/ \E r \in Clients : \E t \in tasks[r] : SfsLoad(r, t)
    \/ \E r \in Clients : \E t \in tasks[r] : SfsConnect(r, t)
    \/ \E r \in Clients : \E t \in tasks[r] : TaskInbound(r, t)
    \/ \E r \in Clients, p \in Paths : HandlerInbound(r, p)
    \/ \E r \in Clients : \E t \in tasks[r] : SfsFinish(r, t)

SpecFiles == InitFilesSpec /\ [][NextFiles]_vars

\* The start_file_sync calls in progress at replica r for path p.
TasksOf(r, p) == {t \in tasks[r] : t.path = p}

\* One step of a start_file_sync in progress at replica r for path p.
SfsStep(r, p) ==
    \E t \in TasksOf(r, p) :
        \/ SfsLoad(r, t) \/ SfsConnect(r, t) \/ SfsError(r, t)
        \/ SfsPanic(r, t) \/ SfsFinish(r, t)

\* The user of replica "A" writes and deletes files; "B" follows the index.
NextFilesErr ==
    \/ \E p \in Paths, c \in Contents : UserCreate("A", p, c)
    \/ \E p \in Paths : UserDelete("A", p)
    \/ \E r \in Clients, p \in Paths : Watch(r, p)
    \/ \E r \in Clients : IndexDeliver(r)
    \/ \E r \in Clients : \E t \in tasks[r] : SfsLoad(r, t)
    \/ \E r \in Clients : \E t \in tasks[r] : SfsConnect(r, t)
    \/ \E r \in Clients : \E t \in tasks[r] : SfsError(r, t)
    \/ \E r \in Clients : \E t \in tasks[r] : SfsPanic(r, t)
    \/ \E r \in Clients : \E t \in tasks[r] : TaskInbound(r, t)
    \/ \E r \in Clients, p \in Paths : HandlerInbound(r, p)
    \/ \E r \in Clients : \E t \in tasks[r] : SfsFinish(r, t)

\* The runtime keeps polling every start_file_sync until it returns: its
\* awaits are file reads, a connect and a 300 ms sleep.
SpecFilesFair ==
    /\ InitFilesSpec
    /\ [][NextFilesErr]_vars
    /\ \A r \in Clients, p \in Paths : WF_vars(SfsStep(r, p))

\* -------------------------------------- start_file_sync window on its own
\* One start_file_sync from its claim to activate, with the user writing
\* the file meanwhile: inp is the disk (file, snapshot), the text the relay
\* holds and the user's last write; out is the task.  The watcher drops the
\* events of these writes: the path is pending, so try_claim fails.
WindowTexts == {"empty", "x", "y"}

\* Step 2, on whole texts: what the document holds afterwards.
OfflineStep(doc, file) ==
    IF file = Absent \/ file = doc \/ file = "empty" THEN doc ELSE file

\* The user saves the file with new content while the task runs.
WinUserWrite ==
    /\ inp.kind = "window" /\ out.pc # "active" /\ inp.writes < MaxWindowWrites
    /\ \E c \in WindowTexts \ {inp.file} :
          inp' = [inp EXCEPT !.file = c, !.writes = @ + 1, !.written = c,
                             !.inbound_since = FALSE]
    /\ UNCHANGED <<mode, out, srvVars, netVars, cliVars, fileVars>>

\* Steps 1 and 2 and the first persist_doc.
WinLoad ==
    /\ inp.kind = "window" /\ out.pc = "claimed"
    /\ LET doc == OfflineStep(load_or_create_doc(inp.snapshot), inp.file)
       IN  /\ out' = [out EXCEPT !.pc = "loaded", !.doc = doc]
           /\ inp' = [inp EXCEPT !.snapshot = doc]
    /\ UNCHANGED <<mode, srvVars, netVars, cliVars, fileVars>>

\* The text observer is attached only once the task sleeps, after the
\* client has connected.
WinObserveLate ==
    /\ inp.kind = "window"
    /\ \/ out.pc = "loaded" /\ out' = [out EXCEPT !.pc = "observing"]
       \/ out.pc = "sleeping" /\ ~out.observing /\ out' = [out EXCEPT !.observing = TRUE]
    /\ UNCHANGED <<mode, inp, srvVars, netVars, cliVars, fileVars>>

\* Step 3: the text observer is attached to the document.
WinObserve ==
    /\ inp.kind = "window" /\ out.pc = "loaded"
    /\ out' = [out EXCEPT !.pc = "observing", !.observing = TRUE]
    /\ UNCHANGED <<mode, inp, srvVars, netVars, cliVars, fileVars>>

\* Steps 4 and 5: the client connects and the full state is pushed; the
\* task sleeps.
WinConnect ==
    /\ inp.kind = "window" /\ out.pc = "observing"
    /\ out' = [out EXCEPT !.pc = "sleeping", !.connected = TRUE]
    /\ UNCHANGED <<mode, inp, srvVars, netVars, cliVars, fileVars>>

\* On the connection the relay's text reaches the still empty document; an
\* attached text observer writes the file unless it already reads so, and
\* the snapshot.
WinInbound ==
    /\ inp.kind = "window" /\ out.connected /\ out.pc = "sleeping"
    /\ out.doc = "empty" /\ inp.remote # "empty"
    /\ out' = [out EXCEPT !.doc = inp.remote]
    /\ inp' = IF inp.file = inp.remote \/ ~out.observing
              THEN [inp EXCEPT !.inbound_since = TRUE]
              ELSE [inp EXCEPT !.file = inp.remote, !.snapshot = inp.remote,
                               !.inbound_since = TRUE]
    /\ UNCHANGED <<mode, srvVars, netVars, cliVars, fileVars>>

\* After the sleep: persist_doc, the safety-net write, sync_local_change
\* and activate.
WinFinish ==
    /\ inp.kind = "window" /\ out.pc = "sleeping"
    /\ LET file == IF out.doc # "empty" THEN out.doc ELSE inp.file
           doc == sync_local_change(out.doc, file)
       IN  /\ inp' = [inp EXCEPT !.snapshot = out.doc, !.file = file]
           /\ out' = [out EXCEPT !.pc = "active", !.doc = doc]
    /\ UNCHANGED <<mode, srvVars, netVars, cliVars, fileVars>>

InitWindow ==
    /\ mode = "window"
    /\ InitServer
    /\ up = [c \in Clients |-> FALSE]
    /\ epoch = [c \in Clients |-> 0]
    /\ sent = 0
    /\ restarts = 0
    /\ InitClients
    /\ InitFiles
    /\ inp \in {[kind |-> "window", file |-> f, snapshot |-> s, remote |-> t,
                 writes |-> 0, written |-> Absent, inbound_since |-> FALSE] :
                   f \in WindowTexts \cup {Absent}, s \in WindowTexts \cup {Absent},
                   t \in WindowTexts}
    /\ out = [kind |-> "task", pc |-> "claimed", doc |-> Absent,
              observing |-> FALSE, connected |-> FALSE]

NextWindow ==
    WinUserWrite \/ WinLoad \/ WinObserve \/ WinConnect \/ WinInbound \/ WinFinish

SpecWindow == InitWindow /\ [][NextWindow]_vars

\* ----------------------------------------------------- folder client claims
\* No file event is queued, every index update is delivered, no
\* start_file_sync is in progress and no document is owed text.
FilesQuiescent ==
    /\ \A r \in Clients : wq[r] = {} /\ idxin[r] = <<>> /\ tasks[r] = {}
    /\ \A r \in Clients, p \in Paths : srvtext[p] => adoc[r][p] # "empty"

IndexKeys(r) == {p \in Paths : contains_key(idx[r][p])}

OnDisk(r) == {p \in Paths : disk[r][p] # Absent}

\* C8: once the user of one replica has deleted a tracked file and that
\* removal has reached the others, the path's key is in no replica's index
\* and every other replica has neither the file nor a snapshot for it.
C8_DeletionPropagates ==
    FilesQuiescent =>
        \A p \in Paths : deleted[p] # "nobody" =>
            /\ \A r \in Clients : ~contains_key(idx[r][p])
            /\ \A b \in Clients \ {deleted[p]} :
                  disk[b][p] = Absent /\ snap[b][p] = Absent

\* C9: at quiescence the keys of every replica's index map are exactly the
\* paths that exist on that replica's disk and have a watched extension.
C9_IndexMatchesDisk ==
    FilesQuiescent =>
        \A r \in Clients : IndexKeys(r) = {p \in OnDisk(r) : IsWatchedExtension(p)}

\* C25: for every path at most one start_file_sync is in progress, and a
\* path with an active handler is neither pending nor being started again.
C25_OneSyncPerPath ==
    \A r \in Clients, p \in Paths :
        /\ Cardinality(TasksOf(r, p)) <= 1
        /\ adoc[r][p] # Absent => p \notin pending[r] /\ TasksOf(r, p) = {}

\* C26: every path for which try_claim returned true is eventually
\* activated or unclaimed, also when start_file_sync returns an error: no
\* path stays pending forever.
C26_PendingResolves ==
    \A r \in Clients, p \in Paths :
        (p \in pending[r]) ~> (adoc[r][p] # Absent \/ p \notin pending[r])

\* C27: when a key disappears from a replica's index map, afterwards the
\* file and the snapshot of that path are absent and the path is neither
\* active nor pending.
C27_RemovalCleansUp ==
    [][\A r \in Clients, p \in Paths :
          (contains_key(idx[r][p]) /\ ~contains_key(idx'[r][p])) =>
             /\ disk'[r][p] = Absent /\ snap'[r][p] = Absent
             /\ adoc'[r][p] = Absent /\ p \notin pending'[r]]_vars

\* ------------------------------------------------------------- pure claims
\* A replica whose state vector is sv.
ReplicaAt(sv) == {x \in Op : x.k <= sv[x.o]}

\* The operations of the decodable rows stored for d.
StoredOps(rows, d) ==
    UNION {rows[i].data.ops :
              i \in {j \in 1..Len(rows) : rows[j].doc = d /\ rows[j].data.kind = "update"}}

\* The replica at inp.sv, given the delta, shows what the stored rows show.
DeltaReachesStore ==
    GetString(ApplyUpdate(ReplicaAt(inp.sv), out.update)) = GetString(StoredOps(db, inp.doc))

\* Every operation of the replica at inp.sv is among the stored ones.
StoreCovers ==
    \A c \in Clients : inp.sv[c] <= StateVectorOf(StoredOps(db, inp.doc))[c]

\* C6 as stated: for any stored rows and any state vector, the delta brings a
\* replica at that state vector to the content of the stored rows.
C6_AnyStateVector == out.kind = "delta" => DeltaReachesStore

\* C6 amended: for any stored rows and any state vector the rows cover, the
\* delta brings a replica at that state vector to the content of the stored
\* rows; the empty state vector is always covered.
C6_CoveredStateVector ==
    (out.kind = "delta" /\ StoreCovers) => DeltaReachesStore

\* A query with a non-empty covered state vector on a table that holds an
\* undecodable row and more than the replica has.
C6_Witness ==
    /\ out.kind = "delta" /\ StoreCovers /\ inp.sv # EmptySV
    /\ \E i \in 1..Len(db) : db[i].doc = inp.doc /\ db[i].data = Corrupt
    /\ out.update.kind = "update" /\ out.update.ops # {}

\* C10: decoding the encoding of (t, d, p) gives (t, d, p) back, for every
\* msg_type, every doc_id of at most 65,535 bytes and every payload.
C10_RoundTrip ==
    (out.kind = "decoded" /\ Len(inp.doc_id) <= 65535) =>
        out.frame = Some(inp.msg_type, inp.doc_id, inp.payload)

\* A frame whose doc_id is 65,535 bytes long has been encoded and decoded.
C10_Witness ==
    /\ out.kind = "decoded" /\ Len(inp.doc_id) = 65535
    /\ out.frame.some /\ out.frame.payload # <<>>

DeclaredLength(data) == data[2] * 256 + data[3]

\* C11: decode_message returns no frame exactly when the input is shorter
\* than 3 bytes, or the declared doc_id length exceeds the bytes after the
\* header, or the doc_id bytes are not valid UTF-8; otherwise it returns the
\* frame's msg_type, doc_id and payload.
C11_DecodeFailure ==
    out.kind = "parsed" =>
        LET data == inp.data
            n == DeclaredLength(data)
        IN  IF \/ Len(data) < 3
               \/ n > Len(data) - 3
               \/ ~IsValidUtf8(SubSeq(data, 4, 3 + n))
            THEN out.frame = None
            ELSE out.frame = Some(data[1], SubSeq(data, 4, 3 + n),
                                  SubSeq(data, 4 + n, Len(data)))

\* A frame long enough for its declared doc_id was refused for its doc_id.
C11_Witness ==
    /\ out.kind = "parsed" /\ out.frame = None
    /\ Len(inp.data) >= 3 /\ DeclaredLength(inp.data) <= Len(inp.data) - 3
    /\ DeclaredLength(inp.data) >= 3

\* C12: apply_diff_to_yrs(doc, text, old, new) on a document whose content
\* is old returns with the document's content equal to new, multi-byte
\* characters included, and never stops short of returning.
C12_DiffReachesNew ==
    /\ out.kind = "diffed" => out.content = Flatten(inp.new)
    /\ out.kind = "diffing" => out.ok

\* A call that kept, deleted and inserted multi-byte characters has returned.
C12_Witness ==
    /\ out.kind = "diffed"
    /\ inp.old = <<Chars4, Chars2>> /\ inp.new = <<Chars4, Chars1>>

\* Offset c falls between two characters of the UTF-8 text.
OnCharBoundary(content, c) ==
    /\ c >= 0 /\ c <= Len(content)
    /\ c < Len(content) => ~IsContinuation(content[c + 1])

\* C13: every insert is at a cursor within the content, every remove_range
\* ends within the content, Equal and Insert advance the cursor by the byte
\* length of their value, Delete leaves it, and the cursor is always on a
\* character boundary.
C13_CursorInBounds ==
    out.kind \in {"diffing", "diffed"} =>
        /\ out.ok
        /\ OnCharBoundary(out.content, out.cursor)
        /\ out.last.tag = "insert" =>
              out.last.at <= out.last.size /\ out.cursor = out.last.at + out.last.n
        /\ out.last.tag = "delete" =>
              out.last.at + out.last.n <= out.last.size /\ out.cursor = out.last.at
        /\ out.last.tag = "equal" => out.cursor = out.last.at + out.last.n

\* A multi-byte character was removed at a cursor past a kept multi-byte one.
C13_Witness ==
    /\ out.kind = "diffing" /\ out.last.tag = "delete"
    /\ out.last.at = 4 /\ out.last.n = 2 /\ out.last.size = 6

\* C14: a document loaded from the snapshot save_doc wrote has the content
\* the saved document had, also when the saved document was itself loaded
\* from a snapshot and then modified.
C14_SaveLoadRoundTrip ==
    (out.kind = "fs" /\ out.fresh) => TextOf(out.loaded) = out.saved

\* A loaded document was modified, by an insertion and a removal, saved again
\* and loaded again with text in it.
C14_Witness ==
    /\ out.kind = "fs" /\ out.fresh /\ out.loads = 2 /\ inp.client = "B"
    /\ out.loaded.ds # {} /\ TextOf(out.loaded) # {}
    /\ \E x \in out.loaded.ops : x.o = "B"

\* The scan has returned and the folder is as it left it.
BootReturned == out.kind = "scanned" /\ ~inp.dirty

\* A file the scanner watches: a text file with a watched extension that the
\* walk yields.
BootWatched(p) ==
    /\ inp.disk[p].kind = "text" /\ filter_entry(p)
    /\ file_extension[p] \in {"md", "txt"}

\* The file had no snapshot when the run started, or a snapshot whose text
\* is not the file's.
BootChanged(p) ==
    \/ out.before[p] = NoSnapshot
    \/ out.before[p].kind = "update" /\ out.before[p].text # Flatten(inp.disk[p].text)

BootReported == {out.modified[i] : i \in 1..Len(out.modified)}

BootSynced(p) == inp.state[p] = save_text(Flatten(inp.disk[p].text))

\* C16: in bootstrap_offline_changes a failure to save one file's snapshot
\* does not abort the scan: the call returns Ok, every entry of the walk is
\* visited, and every new or modified watched file whose snapshot can be
\* written is saved and reported.
C16_ScanSurvivesSaveFailure ==
    BootReturned =>
       /\ out.ok
       /\ WalkEntries = {out.visited[i] : i \in 1..Len(out.visited)}
       /\ \A p \in BootFiles :
             (BootWatched(p) /\ BootChanged(p) /\ inp.writable[p])
                => (p \in BootReported /\ BootSynced(p))

\* The scan has returned after the save of one changed file failed and a
\* file visited later was saved and reported.
C16_Witness ==
    /\ BootReturned
    /\ \E i, j \in 1..Len(out.visited) :
          /\ i < j
          /\ BootWatched(out.visited[i]) /\ BootChanged(out.visited[i])
          /\ ~inp.writable[out.visited[i]] /\ out.visited[i] \in out.failed
          /\ out.visited[j] \in BootReported /\ BootSynced(out.visited[j])

FramesOf(q) == {q[i] : i \in 1..Len(q)}

\* The handshake messages of the documents the two reads of the registry saw.
HandshakeVectors ==
    {Frame(MSG_SYNC_STEP_1, d, EncSV(StateVectorOf(out.seen1[d].ops))) :
        d \in RegisteredDocs(out.seen1)}

HandshakeStates ==
    {Frame(MSG_UPDATE, d, EncUpdate(EncodeStateAsUpdate(out.seen2[d].ops, EmptySV))) :
        d \in RegisteredDocs(out.seen2)}

\* When the main loop is entered, a SYNC_STEP_1 with the state vector and an
\* UPDATE with the full state have been written for every registered
\* document, the former before the latter, and they went out if the socket
\* stayed open.
HandshakeComplete ==
    out.pc = "main" =>
       /\ RegisteredDocs(out.seen1) \subseteq RegisteredDocs(out.seen2)
       /\ HandshakeVectors \cup HandshakeStates \subseteq FramesOf(out.tried)
       /\ \A i, j \in 1..Len(out.tried) :
             (out.tried[i].type = MSG_UPDATE /\ out.tried[j].type = MSG_SYNC_STEP_1)
                => j < i
       /\ up["A"] => HandshakeVectors \cup HandshakeStates \subseteq FramesOf(out.wire)

\* C29: in start_file_sync, for a file that exists and is readable, after
\* the offline-edit step the document holds the disk content (the text, or
\* the BINARY-wrapped form), whatever the snapshot and the file hold, an
\* empty file included; the operations are applied to the loaded document.
C29_OfflineEditReachesDisk ==
    (inp.kind = "sfs" /\ out.kind \in {"applied", "panicked"}) =>
        out.ok /\ out.content = LocalContent(inp.file)

\* C30: a local modification of the file made while start_file_sync runs
\* for its path is in the document when the path is marked active (no
\* remote text having reached the document after the modification).
C30_WindowEditReflected ==
    (inp.kind = "window" /\ out.pc = "active"
        /\ inp.written # Absent /\ ~inp.inbound_since)
    => out.doc = inp.written

\* C31: no update from the network is applied to a file's document before
\* the inbound observer is attached, and every such update, the first one
\* after subscribing included, is mirrored to the file.
C31_InboundMirrored ==
    inp.kind = "window" =>
        /\ out.connected => out.observing
        /\ inp.inbound_since => inp.file = out.doc

\* The relay's text has reached the document of a sleeping task and the
\* file reads the same.
C31_Witness ==
    /\ inp.kind = "window" /\ out.pc = "sleeping" /\ inp.inbound_since
    /\ out.doc = inp.remote /\ inp.file = inp.remote /\ inp.snapshot = inp.remote

\* C40: the bytes the inbound observer writes on another replica are the
\* bytes written to the file on the first, for valid UTF-8 and for other
\* content, text that starts with "BINARY:" or has white space at either
\* end included.
C40_BytesSurviveTrip ==
    (inp.kind = "trip" /\ out.kind = "mirrored") => out.file = inp.bytes

\* C34: for every document text and every new file content, multi-byte
\* characters included, after sync_local_change the document's text equals
\* the file's content.
C34_ReconcileReachesFile ==
    (inp.kind = "reconcile" /\ out.kind = "returned") =>
        out.ok /\ out.content = LocalContent(inp.file)

\* C32: a local file edit ends in a quiescent state after finitely many
\* mutations: the watcher event of a file write made by the inbound observer
\* finds the file equal to the document and makes no new mutation or UPDATE.
C32_MirrorWriteIsQuiet ==
    inp.kind = "mirror" => ~out.echo

\* The two replicas are at rest: no watcher event waits, no sync_local_change
\* is under way and no update is on its way.
MirrorQuiet ==
    \A r \in Clients :
        inp.wq[r] = "none" /\ out.held[r] = NoRead /\ out.inbox[r] = <<>>

\* C33: a local file edit that was not yet diffed into the document is not
\* lost to the file write of the inbound observer: once the replicas are at
\* rest, every content a user saved has been compared with the document by
\* sync_local_change, and so was put into it.
C33_LocalEditReachesDocument ==
    (inp.kind = "mirror" /\ MirrorQuiet) =>
        \A r \in Clients : inp.unsynced[r] = {}

\* A frame the server cannot take: shorter than 3 bytes, a doc_id length
\* beyond the frame, a doc_id that is not UTF-8, or a SYNC_STEP_1 whose
\* payload is not a state vector.
Malformed(data) ==
    LET m == decode_message(data)
    IN  \/ ~m.some
        \/ /\ m.msg_type = MSG_SYNC_STEP_1
           /\ DecodeStateVector(m.payload) = Corrupt

\* C35: a malformed inbound frame at the server is dropped: it changes no
\* channel, no subscription and no log state, puts no message on an outgoing
\* queue, and the connection stays open and ready for the next frame.
C35_MalformedFrameDropped ==
    [][\A c \in Clients, data \in IngressFrames :
          (Malformed(data) /\ IngressRecv(c, data)) =>
             /\ UNCHANGED <<channels, first, fwd, db, saving, logged, outq>>
             /\ up'[c] /\ srvpc'[c] = Idle]_vars

\* C36: the server answers SYNC_STEP_1(doc_id, sv) with a SYNC_STEP_2 only
\* when the update store holds operations of doc_id that sv does not cover:
\* every SYNC_STEP_2 on an outgoing queue carries at least one operation.
C36_StepTwoOnlyWithDelta ==
    mode = "ingress" =>
        \A c \in Clients : \A i \in 1..Len(outq[c]) :
            outq[c][i].type = MSG_SYNC_STEP_2 => outq[c][i].payload.ops # {}

\* C37 as stated: on Lagged(n) the receiver advances to the newest message
\* the channel holds.
C37_AdvancesToNewest ==
    [][(inp.kind = "lag" /\ IsLagged(out) /\ LagRecv) =>
          out'.next = Newest(out)]_vars

\* C37: when the receiver reports Lagged(n) the forwarder does not exit: the
\* receiver advances to the oldest message the channel still holds, nothing
\* is written for the messages it missed, then or later, and every message
\* read afterwards that came from another connection is written to the socket.
C37_LaggedKeepsForwarding ==
    [][inp.kind = "lag" =>
          /\ (IsLagged(out) /\ LagRecv) =>
                /\ ~out'.exited
                /\ out'.next = Oldest(out)
                /\ out'.written = out.written
          /\ \A i \in 1..Len(out'.written) : out'.written[i] \notin out'.missed
          /\ (out.missed # {} /\ out.open /\ ~IsLagged(out) /\ LagRecv) =>
                LET msg == out.buf[out.next - Oldest(out) + 1]
                IN  IF msg.origin # LagConn
                    THEN out'.written = Append(out.written, msg.id)
                    ELSE out'.written = out.written]_vars

\* The forwarder was told it missed a message and has written a later one.
C37_Witness ==
    /\ inp.kind = "lag" /\ ~out.exited
    /\ out.missed # {} /\ out.written # <<>>
    /\ \E p \in out.missed : out.written[Len(out.written)] > p
    /\ Oldest(out) < Newest(out)

\* The update log without the rows whose update_data does not decode.
Decodable(rows) == SelectSeq(rows, LAMBDA r : r.data.kind = "update")

\* C38: an undecodable update is skipped: get_all_updates_since returns what
\* it would return if the corrupt rows were absent from the log.
C38_CorruptRowSkipped ==
    (mode = "store" /\ out.kind = "delta") =>
        out.update = get_all_updates_since(Decodable(db), inp.doc, inp.sv)

\* C39: distinct relative paths are given distinct doc_ids and distinct
\* snapshot files.
C39_DistinctPathsDistinctNames ==
    (inp.kind = "names" /\ out.kind = "named") =>
        /\ out.doc_id[1] # out.doc_id[2]
        /\ out.state[1] # out.state[2]

\* C28: on every connection, an UPDATE for a document is written only after
\* a SYNC_STEP_1 for that document was written on the same connection.
C28_StepOneBeforeUpdate ==
    inp.kind = "net" =>
        \A i \in 1..Len(out.wire) :
            out.wire[i].type = MSG_UPDATE =>
                \E j \in 1..(i - 1) :
                    out.wire[j].type = MSG_SYNC_STEP_1 /\ out.wire[j].doc = out.wire[i].doc

\* C18: a connect failure, a socket error or a close never ends the connect
\* loop (the task returns only when the outbound channel is closed); while
\* the Client exists, a server that stays reachable is eventually connected
\* to, with the main loop running; and every connection starts with a
\* SYNC_STEP_1 carrying the state vector and an UPDATE carrying the full state
\* of every registered document.
C18_ReconnectsAndHandshakes ==
    /\ [](out.pc = "returned" => ChannelClosed)
    /\ []HandshakeComplete
    /\ (<>[](inp.reachable /\ ~inp.dropped)) => []<>(up["A"] /\ out.pc = "main")

\* After a failed connect attempt and a lost connection, the loop is in the
\* main loop of its second connection with two documents registered, one of
\* them with content.
C18_Witness ==
    /\ out.pc = "main" /\ up["A"] /\ out.conns = 2 /\ out.failed
    /\ RegisteredDocs(out.seen1) = DocIds
    /\ \E d \in DocIds : out.seen2[d].ops # {}

\* C19: no file under the .syncline metadata directory, seen by the startup
\* scan or by a watcher event, is ever inserted into the index, given a
\* document, or the subject of an outbound frame.
C19_MetadataNeverSynced ==
    out.kind = "client" =>
       \A p \in ScanPaths :
          (\E i \in 1..Len(path_components[p]) : path_components[p][i] = ".syncline")
             => (p \notin out.index /\ p \notin out.started /\ p \notin out.frames)

\* The scan has passed over a watched file a user put under .syncline, and
\* the watcher loop has passed over the event of a snapshot the client wrote
\* for a file it syncs.
C19_Witness ==
    /\ out.kind = "client" /\ out.pc = "watching"
    /\ \E p \in out.skipped : p \in UserPaths /\ path_extension[p] \in {"md", "txt"}
    /\ \E p \in out.index : crdt_state_path[p] \in out.skipped /\ p \in out.frames
    /\ inp.events = {}

\* ------------------------------------------------------------ relay claims
\* Every connection a peer may have had.
ConnIds == {<<c, e>> : c \in Clients, e \in 1..MaxPeerSteps}

ForwardersOf(conn) == {f \in BagToSet(fwd) : f.conn = conn}

\* C15: once a connection is closed, every forwarder spawned for it
\* eventually exits, so the channels it subscribed to lose its receivers.
C15_ForwardersExit ==
    \A conn \in ConnIds : (~IsOpen(conn)) ~> (ForwardersOf(conn) = {})

\* A closed connection's forwarder, the only receiver of its channel, has
\* nothing to send.
C15_Witness ==
    \E f \in BagToSet(fwd) :
        /\ ~IsOpen(f.conn) /\ f.rx = <<>>
        /\ Receivers(f.doc) = {f} /\ fwd[f] = 1

\* The forwarder tasks alive for connection conn on document d.
ForwarderCount(conn, d) ==
    BagCardinality([f \in {g \in BagToSet(fwd) : g.conn = conn /\ g.doc = d} |-> fwd[f]])

\* C24: the server keeps at most one forwarder per (connection, document),
\* also when the connection sends SYNC_STEP_1 for the document more than
\* once, so a connection receives each broadcast update at most once.
C24_OneForwarderPerDocument ==
    \A conn \in ConnIds : \A d \in DocIds : ForwarderCount(conn, d) <= 1

\* C21: a payload whose append to the update store failed is not published
\* to the document's channel: once no save task is left, every payload a
\* forwarder holds or has written to a connection is a row of the store.
C21_FailedAppendNotPublished ==
    saving = EmptyBag =>
       /\ \A f \in BagToSet(fwd) : \A i \in 1..Len(f.rx) :
             [doc |-> f.doc, data |-> f.rx[i].payload] \in logged
       /\ \A c \in Clients : \A i \in 1..Len(outq[c]) :
             outq[c][i].type = MSG_UPDATE
                => [doc |-> outq[c][i].doc, data |-> outq[c][i].payload] \in logged

UpdateFrames(q) == {i \in 1..Len(q) : q[i].type = MSG_UPDATE}

\* C3: no UPDATE on a connection's outgoing queue was received from that
\* same connection.
C3_NoEchoToOrigin ==
    \A c \in Clients : \A i \in UpdateFrames(outq[c]) : outq[c][i].origin # ConnId(c)

\* A forwarder of an open connection has dropped a message of its own
\* connection while another connection's update sits on that connection's queue.
C3_Witness ==
    \E f \in BagToSet(fwd) :
        /\ IsOpen(f.conn) /\ f.skipped
        /\ UpdateFrames(outq[f.conn[1]]) # {}

Subscribed(c, d) ==
    up[c] /\ \E f \in BagToSet(fwd) : f.conn = ConnId(c) /\ f.doc = d

\* A forwarder of c on d holds a message u of another connection.
Owed(c, d, u) ==
    /\ up[c]
    /\ \E f \in BagToSet(fwd) :
          /\ f.conn = ConnId(c) /\ f.doc = d
          /\ \E i \in 1..Len(f.rx) : f.rx[i].payload = u /\ f.rx[i].origin # ConnId(c)

Got(c, d, u) ==
    \E i \in UpdateFrames(outq[c]) : outq[c][i].doc = d /\ outq[c][i].payload = u

\* The step is the server's handling of UPDATE(d, u) from connection a.
UpdateHandled(a, d, u) ==
    /\ up[a] /\ srvpc[a] = Idle
    /\ saving' = saving (+) SetToBag({[doc |-> d, data |-> u]})
    /\ fwd' = BroadcastSend(fwd, d, [payload |-> u, origin |-> ConnId(a)])

LoggedOps(d) == UNION {ApplyUpdate({}, r.data) : r \in {x \in logged : x.doc = d}}

\* The step is the server's answer to a SYNC_STEP_1 of c with the empty
\* state vector, for a doc with rows in the log.
AnswersFresh(c) ==
    /\ up[c] /\ srvpc[c] # Idle /\ srvpc'[c] = Idle /\ up'[c]
    /\ srvpc[c].sv = EmptySV
    /\ \E r \in logged : r.doc = srvpc[c].doc

\* C7: after a restart, the answer to SYNC_STEP_1 with the empty state vector
\* is a SYNC_STEP_2 that rebuilds the content of every row appended so far.
C7_ReplayAfterRestart ==
    [][\A c \in Clients :
         (restarts > 0 /\ AnswersFresh(c)) =>
            /\ Len(outq'[c]) = Len(outq[c]) + 1
            /\ LET f == outq'[c][Len(outq'[c])]
               IN  /\ f.type = MSG_SYNC_STEP_2 /\ f.doc = srvpc[c].doc
                   /\ GetString(ApplyUpdate({}, f.payload))
                        = GetString(LoggedOps(srvpc[c].doc))]_vars

C7_Witness ==
    /\ restarts > 0
    /\ \E c \in Clients : \E i \in 1..Len(outq[c]) :
          /\ outq[c][i].type = MSG_SYNC_STEP_2
          /\ outq[c][i].payload.ops # {}
          /\ GetString(outq[c][i].payload.ops) = GetString(LoggedOps(outq[c][i].doc))

====
